---- MODULE Spec2Model ----
(***************************************************************************)
(* Layered column-grid collision structure of esp/batched_sim:             *)
(* ColumnGridSource (queries, load, save) and ColumnGridSet (dispatch).    *)
(*                                                                         *)
(* Numbers.  The code computes in IEEE-754 binary32.  The model keeps the  *)
(* arithmetic of that format in miniature: a value is an integer count of  *)
(* quanta of 2^-FracBits, a float is a value with at most MantBits         *)
(* significant bits, and every operation rounds its exact result to the    *)
(* nearest float, ties to even (gradual underflow at one quantum).         *)
(***************************************************************************)
EXTENDS Integers, Sequences, FiniteSets, TLC

\* ------------------------------------------------------------- bounds
MantBits == 4
FracBits == 6
MaxLayers == 2
MaxY == 3
WordBits == 4

\* ------------------------------------------------------ float miniature
RECURSIVE Pow2(_)
Pow2(n) == IF n <= 0 THEN 1 ELSE 2 * Pow2(n - 1)

RECURSIVE BitLen(_)
BitLen(n) == IF n <= 0 THEN 0 ELSE 1 + BitLen(n \div 2)

Abs(n) == IF n < 0 THEN -n ELSE n

Max(a, b) == IF a >= b THEN a ELSE b

Min(a, b) == IF a <= b THEN a ELSE b

\* 1.0f
One == Pow2(FracBits)

\* n (in quanta) is a value of the float format
IsFloat(n) ==
  Abs(n) < Pow2(MantBits) \/ Abs(n) % Pow2(BitLen(Abs(n)) - MantBits) = 0

\* the float nearest to num/den quanta (den > 0), ties to even
RoundNE(num, den) ==
  LET a == Abs(num)
      s == Pow2(Max(0, BitLen(a \div den) - MantBits))
      lo == (a \div (den * s)) * s
      rem2 == 2 * (a - lo * den)
      up == IF rem2 > den * s THEN TRUE
            ELSE IF rem2 < den * s THEN FALSE
            ELSE (lo \div s) % 2 = 1
      r == IF up THEN lo + s ELSE lo
  IN IF num < 0 THEN -r ELSE r

\* a - b, a * b, a / b in float
FSub(a, b) == RoundNE(a - b, 1)

FMul(a, b) == RoundNE(a * b, One)

FDiv(a, b) == RoundNE(a * One, b)

\* (float)n for an integer n
IntToFloat(n) == RoundNE(n * One, 1)

\* int(f): truncation toward zero
FloatToInt(f) == IF f >= 0 THEN f \div One ELSE -((-f) \div One)

\* v >> k, and v & mask for a mask 2^k - 1, for v >= 0
ShiftRight(v, k) == v \div Pow2(k)

MaskLow(v, mask) == v % (mask + 1)

\* ----------------------------------------------------------- constants
\* ColumnGridSource::INVALID_Y: the largest finite float
INVALID_Y == (Pow2(MantBits) - 1) * Pow2(FracBits + MantBits)

outsideVolumeRetVal == -INVALID_Y

\* side of a patch is 2^patchShift cells
patchShift == 1

globalToLocalCellMask == Pow2(patchShift) - 1

PatchSide == Pow2(patchShift)

\* -------------------------------------------------------------- columns
Column(lo, hi) == [freeMinY |-> lo, freeMaxY |-> hi]

\* the column of a layer a cell does not use: an empty interval
InvalidColumn == Column(INVALID_Y, -INVALID_Y)

IsSolid(col) == col.freeMinY > col.freeMaxY

\* ------------------------------------------------- patches (derived index)
numPatchesX(dimX) == (dimX + PatchSide - 1) \div PatchSide

numPatchesZ(dimZ) == (dimZ + PatchSide - 1) \div PatchSide

getPatchIndex(g, patchX, patchZ) == patchZ * numPatchesX(g.dimX) + patchX

getLocalCellIndex(localCellX, localCellZ) == localCellZ * PatchSide + localCellX

getColumn(patch, localCellIdx, layerIndex) ==
  patch.columns[localCellIdx + 1][layerIndex + 1]

\* the column-stack of cell (cx, cz) in the flat layers (x varies fastest)
CellStack(layers, dimX, cx, cz) ==
  [k \in 1..Len(layers) |-> layers[k][cz * dimX + cx + 1]]

\* number of layers a cell uses: up to its topmost non-solid column
CellNumLayers(stack) ==
  LET used == {k \in 1..Len(stack) : ~IsSolid(stack[k])}
  IN IF used = {} THEN 0 ELSE CHOOSE k \in used : \A j \in used : j <= k

BuildPatch(layers, dimX, dimZ, px, pz) ==
  LET inGrid(li) == /\ px * PatchSide + (li % PatchSide) < dimX
                    /\ pz * PatchSide + (li \div PatchSide) < dimZ
      stackOf(li) == CellStack(layers, dimX, px * PatchSide + (li % PatchSide),
                               pz * PatchSide + (li \div PatchSide))
      locals == 0..(PatchSide * PatchSide - 1)
      n == IF \E li \in locals : inGrid(li)
           THEN CellNumLayers([k \in 1..Len(layers) |->
                  IF \E li \in locals : inGrid(li) /\ ~IsSolid(stackOf(li)[k])
                  THEN Column(0, 0) ELSE InvalidColumn])
           ELSE 0
      uniform == /\ \A li \in locals : inGrid(li)
                 /\ \A li \in locals : stackOf(li) = stackOf(0)
      padded(li) == IF inGrid(li) THEN SubSeq(stackOf(li), 1, n)
                    ELSE [k \in 1..n |-> InvalidColumn]
  IN [numLayers |-> n,
      localCellShift |-> IF uniform THEN patchShift ELSE 0,
      columns |-> IF uniform THEN <<padded(0)>>
                  ELSE [i \in 1..(PatchSide * PatchSide) |-> padded(i - 1)]]

BuildPatches(layers, dimX, dimZ) ==
  [i \in 1..(numPatchesX(dimX) * numPatchesZ(dimZ)) |->
     BuildPatch(layers, dimX, dimZ, (i - 1) % numPatchesX(dimX),
                (i - 1) \div numPatchesX(dimX))]

\* ------------------------------------------------- ColumnGridSource queries
Result(r, c, p) == [ret |-> r, cache |-> c, path |-> p]

\* (pos - min) * invGridSpacing
cellFloat(p, min, invGridSpacing) == FMul(FSub(p, min), invGridSpacing)

offGrid(cf, dim) == cf < 0 \/ cf >= IntToFloat(dim)

clamp(v, lo, hi) == Min(Max(v, lo), hi)

\* mutant: the early return gives clearance 0 instead of the sentinel
earlyReturn_Zero(queryCache, why) == Result(0, queryCache, why)

\* mutant: the early return resets the caller's cache
earlyReturn_ResetsCache(queryCache, why) == Result(outsideVolumeRetVal, 0, why)

\* return outsideVolumeRetVal before the cache is read: off the grid in x
\* or z, or in a patch without layers
earlyReturn(queryCache, why) == Result(outsideVolumeRetVal, queryCache, why)

\* mutant: a gap met on the way up is reported as outside the volume
RECURSIVE searchUp_GapIsOutside(_, _, _, _)
searchUp_GapIsOutside(patch, localCellIdx, layerIndex0, queryY) ==
  LET layerIndex == layerIndex0 + 1
  IN IF layerIndex >= patch.numLayers
     THEN Result(outsideVolumeRetVal, patch.numLayers - 1, "upExhausted")
     ELSE LET col == getColumn(patch, localCellIdx, layerIndex)
          IN IF queryY < col.freeMinY
             THEN Result(outsideVolumeRetVal, layerIndex, "upBetween")
             ELSE IF queryY <= col.freeMaxY
             THEN Result(FSub(queryY, col.freeMinY), layerIndex, "upHit")
             ELSE searchUp_GapIsOutside(patch, localCellIdx, layerIndex, queryY)

\* mutant: running off the top leaves the cache at numLayers
RECURSIVE searchUp_CachePastTop(_, _, _, _)
searchUp_CachePastTop(patch, localCellIdx, layerIndex0, queryY) ==
  LET layerIndex == layerIndex0 + 1
  IN IF layerIndex >= patch.numLayers
     THEN Result(outsideVolumeRetVal, layerIndex, "upExhausted")
     ELSE LET col == getColumn(patch, localCellIdx, layerIndex)
          IN IF queryY < col.freeMinY
             THEN Result(FSub(queryY, col.freeMinY), layerIndex, "upBetween")
             ELSE IF queryY <= col.freeMaxY
             THEN Result(FSub(queryY, col.freeMinY), layerIndex, "upHit")
             ELSE searchUp_CachePastTop(patch, localCellIdx, layerIndex, queryY)

RECURSIVE searchUp(_, _, _, _)
searchUp(patch, localCellIdx, layerIndex0, queryY) ==
  LET layerIndex == layerIndex0 + 1
  IN IF layerIndex >= patch.numLayers
     THEN Result(outsideVolumeRetVal, patch.numLayers - 1, "upExhausted")
     ELSE LET col == getColumn(patch, localCellIdx, layerIndex)
          IN IF queryY < col.freeMinY
             THEN Result(FSub(queryY, col.freeMinY), layerIndex, "upBetween")
             ELSE IF queryY <= col.freeMaxY
             THEN Result(FSub(queryY, col.freeMinY), layerIndex, "upHit")
             ELSE searchUp(patch, localCellIdx, layerIndex, queryY)

\* mutant: a hit on the way down measures from the floor of the layer above
RECURSIVE searchDown_HitFromPrev(_, _, _, _, _)
searchDown_HitFromPrev(patch, localCellIdx, layerIndex0, queryY, prevColFreeMinY) ==
  LET layerIndex == layerIndex0 - 1
  IN IF layerIndex < 0
     THEN Result(outsideVolumeRetVal, 0, "downExhausted")
     ELSE LET col == getColumn(patch, localCellIdx, layerIndex)
          IN IF queryY > col.freeMaxY
             THEN Result(FSub(queryY, prevColFreeMinY), layerIndex, "downBetween")
             ELSE IF queryY >= col.freeMinY
             THEN Result(FSub(queryY, prevColFreeMinY), layerIndex, "downHit")
             ELSE searchDown_HitFromPrev(patch, localCellIdx, layerIndex, queryY,
                                         col.freeMinY)

\* mutant: a gap met on the way down measures from the floor of the layer
\* below it
RECURSIVE searchDown_GapFromBelow(_, _, _, _, _)
searchDown_GapFromBelow(patch, localCellIdx, layerIndex0, queryY, prevColFreeMinY) ==
  LET layerIndex == layerIndex0 - 1
  IN IF layerIndex < 0
     THEN Result(outsideVolumeRetVal, 0, "downExhausted")
     ELSE LET col == getColumn(patch, localCellIdx, layerIndex)
          IN IF queryY > col.freeMaxY
             THEN Result(FSub(queryY, col.freeMinY), layerIndex, "downBetween")
             ELSE IF queryY >= col.freeMinY
             THEN Result(FSub(queryY, col.freeMinY), layerIndex, "downHit")
             ELSE searchDown_GapFromBelow(patch, localCellIdx, layerIndex, queryY,
                                          col.freeMinY)

\* mutant: running off the bottom leaves the cache at the index below 0
RECURSIVE searchDown_CacheBelowZero(_, _, _, _, _)
searchDown_CacheBelowZero(patch, localCellIdx, layerIndex0, queryY, prevColFreeMinY) ==
  LET layerIndex == layerIndex0 - 1
  IN IF layerIndex < 0
     THEN Result(outsideVolumeRetVal, layerIndex, "downExhausted")
     ELSE LET col == getColumn(patch, localCellIdx, layerIndex)
          IN IF queryY > col.freeMaxY
             THEN Result(FSub(queryY, prevColFreeMinY), layerIndex, "downBetween")
             ELSE IF queryY >= col.freeMinY
             THEN Result(FSub(queryY, col.freeMinY), layerIndex, "downHit")
             ELSE searchDown_CacheBelowZero(patch, localCellIdx, layerIndex,
                                            queryY, col.freeMinY)

\* mutant: a gap met on the way down is remembered by the layer above it
RECURSIVE searchDown_GapNamesUpper(_, _, _, _, _)
searchDown_GapNamesUpper(patch, localCellIdx, layerIndex0, queryY, prevColFreeMinY) ==
  LET layerIndex == layerIndex0 - 1
  IN IF layerIndex < 0
     THEN Result(outsideVolumeRetVal, 0, "downExhausted")
     ELSE LET col == getColumn(patch, localCellIdx, layerIndex)
          IN IF queryY > col.freeMaxY
             THEN Result(FSub(queryY, prevColFreeMinY), layerIndex + 1,
                         "downBetween")
             ELSE IF queryY >= col.freeMinY
             THEN Result(FSub(queryY, col.freeMinY), layerIndex, "downHit")
             ELSE searchDown_GapNamesUpper(patch, localCellIdx, layerIndex,
                                           queryY, col.freeMinY)

RECURSIVE searchDown(_, _, _, _, _)
searchDown(patch, localCellIdx, layerIndex0, queryY, prevColFreeMinY) ==
  LET layerIndex == layerIndex0 - 1
  IN IF layerIndex < 0
     THEN Result(outsideVolumeRetVal, 0, "downExhausted")
     ELSE LET col == getColumn(patch, localCellIdx, layerIndex)
          IN IF queryY > col.freeMaxY
             THEN Result(FSub(queryY, prevColFreeMinY), layerIndex, "downBetween")
             ELSE IF queryY >= col.freeMinY
             THEN Result(FSub(queryY, col.freeMinY), layerIndex, "downHit")
             ELSE searchDown(patch, localCellIdx, layerIndex, queryY, col.freeMinY)

\* mutant: the ceiling of the start layer counts as outside the interval
scanLayers_OpenTop(patch, localCellIdx, queryCache, queryY) ==
  LET layerIndex == clamp(queryCache, 0, patch.numLayers - 1)
      col == getColumn(patch, localCellIdx, layerIndex)
  IN IF queryY >= col.freeMinY
     THEN IF queryY < col.freeMaxY
          THEN Result(FSub(queryY, col.freeMinY), layerIndex, "hit")
          ELSE searchUp(patch, localCellIdx, layerIndex, queryY)
     ELSE searchDown(patch, localCellIdx, layerIndex, queryY, col.freeMinY)

\* mutant: a hit in the start layer leaves the caller's cache as it was
scanLayers_KeepsCache(patch, localCellIdx, queryCache, queryY) ==
  LET layerIndex == clamp(queryCache, 0, patch.numLayers - 1)
      col == getColumn(patch, localCellIdx, layerIndex)
  IN IF queryY >= col.freeMinY
     THEN IF queryY <= col.freeMaxY
          THEN Result(FSub(queryY, col.freeMinY), queryCache, "hit")
          ELSE searchUp(patch, localCellIdx, layerIndex, queryY)
     ELSE searchDown(patch, localCellIdx, layerIndex, queryY, col.freeMinY)

\* the scan from the clamped cache layer
scanLayers(patch, localCellIdx, queryCache, queryY) ==
  LET layerIndex == clamp(queryCache, 0, patch.numLayers - 1)
      col == getColumn(patch, localCellIdx, layerIndex)
  IN IF queryY >= col.freeMinY
     THEN IF queryY <= col.freeMaxY
          THEN Result(FSub(queryY, col.freeMinY), layerIndex, "hit")
          ELSE searchUp(patch, localCellIdx, layerIndex, queryY)
     ELSE searchDown(patch, localCellIdx, layerIndex, queryY, col.freeMinY)

\* mutant: the local cell looked up with x and z exchanged
castDownTest_LocalCellSwapped(g, pos, queryCache) ==
  LET cellFloatX == cellFloat(pos.x, g.minX, g.invGridSpacing)
      cellFloatZ == cellFloat(pos.z, g.minZ, g.invGridSpacing)
  IN IF offGrid(cellFloatX, g.dimX)
     THEN earlyReturn(queryCache, "offGridX")
     ELSE IF offGrid(cellFloatZ, g.dimZ)
     THEN earlyReturn(queryCache, "offGridZ")
     ELSE LET globalCellX == FloatToInt(cellFloatX)
              globalCellZ == FloatToInt(cellFloatZ)
              patchX == ShiftRight(globalCellX, patchShift)
              patchZ == ShiftRight(globalCellZ, patchShift)
              patch == g.patches[getPatchIndex(g, patchX, patchZ) + 1]
              localCellX == ShiftRight(MaskLow(globalCellX, globalToLocalCellMask),
                                       patch.localCellShift)
              localCellZ == ShiftRight(MaskLow(globalCellZ, globalToLocalCellMask),
                                       patch.localCellShift)
              localCellIdx == getLocalCellIndex(localCellZ, localCellX)
          IN IF patch.numLayers = 0
             THEN earlyReturn(queryCache, "emptyPatch")
             ELSE scanLayers(patch, localCellIdx, queryCache, pos.y)

castDownTest(g, pos, queryCache) ==
  LET cellFloatX == cellFloat(pos.x, g.minX, g.invGridSpacing)
      cellFloatZ == cellFloat(pos.z, g.minZ, g.invGridSpacing)
  IN IF offGrid(cellFloatX, g.dimX)
     THEN earlyReturn(queryCache, "offGridX")
     ELSE IF offGrid(cellFloatZ, g.dimZ)
     THEN earlyReturn(queryCache, "offGridZ")
     ELSE LET globalCellX == FloatToInt(cellFloatX)
              globalCellZ == FloatToInt(cellFloatZ)
              patchX == ShiftRight(globalCellX, patchShift)
              patchZ == ShiftRight(globalCellZ, patchShift)
              patch == g.patches[getPatchIndex(g, patchX, patchZ) + 1]
              localCellX == ShiftRight(MaskLow(globalCellX, globalToLocalCellMask),
                                       patch.localCellShift)
              localCellZ == ShiftRight(MaskLow(globalCellZ, globalToLocalCellMask),
                                       patch.localCellShift)
              localCellIdx == getLocalCellIndex(localCellX, localCellZ)
          IN IF patch.numLayers = 0
             THEN earlyReturn(queryCache, "emptyPatch")
             ELSE scanLayers(patch, localCellIdx, queryCache, pos.y)

\* mutant: clearance 0 counts as contact
contactTest_ZeroIsContact(g, pos, queryCache) ==
  LET r == castDownTest(g, pos, queryCache)
  IN [ret |-> r.ret <= 0, cache |-> r.cache, path |-> r.path]

\* mutant: the sign test inverted
contactTest_Positive(g, pos, queryCache) ==
  LET r == castDownTest(g, pos, queryCache)
  IN [ret |-> r.ret > 0, cache |-> r.cache, path |-> r.path]

contactTest(g, pos, queryCache) ==
  LET r == castDownTest(g, pos, queryCache)
  IN [ret |-> r.ret < 0, cache |-> r.cache, path |-> r.path]

\* ------------------------------------------------------ ColumnGridSet
\* safeVectorGet: a bounds-checked read of a vector
safeVectorInRange(vec, idx) == idx >= 0 /\ idx < Len(vec)

safeVectorGet(vec, idx) == vec[idx + 1]

SetCastDownTest(grids, radiusIdx, pos, queryCache) ==
  castDownTest(safeVectorGet(grids, radiusIdx), pos, queryCache)

\* mutant: every radius index is answered by the first grid
SetContactTest_FirstGrid(grids, radiusIdx, pos, queryCache) ==
  contactTest(safeVectorGet(grids, 0), pos, queryCache)

SetContactTest(grids, radiusIdx, pos, queryCache) ==
  contactTest(safeVectorGet(grids, radiusIdx), pos, queryCache)

\* ----------------------------------------------------------------- state
VARIABLES
  source,        \* a ColumnGridSource instance
  columnGrids_,  \* ColumnGridSet::columnGrids_
  sphereRadii_,  \* ColumnGridSet::sphereRadii_
  queryCache,    \* the caller's QueryCacheValue
  pc,            \* "idle", "returned" (a query returned), "fatal" (aborted)
  call,          \* the query that returned last: op, radiusIdx, pos, cacheIn
  result,        \* what it returned: ret, cache, path
  files,         \* the file system: path -> file, or NoFile
  other,         \* a second ColumnGridSource instance, the one load() fills
  io,            \* the load, save or construction that ran last
  setLoad,       \* the call of ColumnGridSet::load in progress or ended last
  agents         \* the callers that query concurrently, each with its cache

vars == <<source, columnGrids_, sphereRadii_, queryCache, pc, call, result,
          files, other, io, setLoad, agents>>

queryVars == <<queryCache, call, result>>

ioVars == <<files, other, io>>

procVars == <<setLoad, agents>>

NoCall == [op |-> "none", radiusIdx |-> 0, pos |-> [x |-> 0, y |-> 0, z |-> 0],
           cacheIn |-> 0]

NoResult == Result(0, 0, "none")

\* ------------------------------------------------------------ file format
CURRENT_FILE_VERSION == 1

\* 0xFACEB00501234567 as four 16-bit words, most significant first
MAGIC == <<64206, 45061, 291, 17767>>

Paths == {"a.columngrid", "b.columngrid"}

\* a path fopen(.., "wb") cannot open
UnwritablePaths == {"missing_dir/a.columngrid"}

NoFile == [exists |-> FALSE]

\* a file: whether it holds sizeof(FileHeader) bytes, the header's fields,
\* and the Column records that follow the header
File(hdr, records) ==
  [exists |-> TRUE, headerComplete |-> TRUE, header |-> hdr, body |-> records]

\* fopens and fcloses: the calls of fopen that gave a handle and the calls of
\* fclose, in the last call of save() or load()
NoIO ==
  [op |-> "none", path |-> "", fresh |-> FALSE, outcome |-> "none",
   fopens |-> 0, fcloses |-> 0]

\* no ColumnGridSet::load called yet
NoSetLoad ==
  [filepathBase |-> "", columnGridFilepathNumber |-> 0, probed |-> <<>>,
   opened |-> <<>>, sizeAtCall |-> 0, calls |-> 0, outcome |-> "none"]

NoAgents == <<>>

\* a ColumnGridSource as constructed
DefaultSource ==
  [dimX |-> 0, dimZ |-> 0, minX |-> 0, minZ |-> 0, gridSpacing |-> 0,
   invGridSpacing |-> 0, sphereRadius |-> 0, layers |-> <<>>, patches |-> <<>>]

RECURSIVE Concat(_)
Concat(seqs) == IF seqs = <<>> THEN <<>> ELSE Head(seqs) \o Concat(Tail(seqs))

\* FileHeader header{} with the instance's fields
saveHeader(g) ==
  [magic |-> MAGIC, version |-> CURRENT_FILE_VERSION,
   minX |-> g.minX, minZ |-> g.minZ, gridSpacing |-> g.gridSpacing,
   sphereRadius |-> g.sphereRadius, dimX |-> g.dimX, dimZ |-> g.dimZ,
   numLayers |-> Len(g.layers)]

\* mutant: one row of dimX records per layer
saveBody_OneRow(g) ==
  Concat([i \in 1..Len(g.layers) |-> SubSeq(g.layers[i], 1, g.dimX)])

\* mutant: the layers are written from the last to the first
saveBody_LastFirst(g) ==
  Concat([i \in 1..Len(g.layers) |->
            SubSeq(g.layers[Len(g.layers) + 1 - i], 1, g.dimX * g.dimZ)])

\* dimX * dimZ Column records of each layer, in layer order
saveBody(g) ==
  Concat([i \in 1..Len(g.layers) |-> SubSeq(g.layers[i], 1, g.dimX * g.dimZ)])

\* what save() writes
save(g) == File(saveHeader(g), saveBody(g))

\* ensureLayer(layerIdx): at least layerIdx + 1 layers, a new layer having
\* dimX * dimZ unused columns
ensureLayer(g, layerIdx) ==
  IF Len(g.layers) < layerIdx + 1
  THEN [g EXCEPT !.layers =
          g.layers \o [i \in 1..(layerIdx + 1 - Len(g.layers)) |->
                         [c \in 1..(g.dimX * g.dimZ) |-> InvalidColumn]]]
  ELSE g

\* uint32_t arithmetic, in a miniature of WordBits bits: modulo 2^WordBits
ToUnsigned(n) == n % Pow2(WordBits)

\* an unsigned value passed as int: two's complement
ToInt(u) == IF u >= Pow2(WordBits - 1) THEN u - Pow2(WordBits) ELSE u

\* mutant: the wrapped value reaches ensureLayer as it is
numLayersMinusOne_Unsigned(numLayers) == ToUnsigned(numLayers - 1)

\* header.numLayers - 1, computed in uint32_t and passed as int:
\* 0 - 1 wraps to 2^32 - 1, which is -1 as an int
numLayersMinusOne(numLayers) == ToInt(ToUnsigned(numLayers - 1))

\* fread of n records at offset off into a layer: the records the file
\* still has, up to n, overwrite the front of the layer
freadLayer(layer, body, off, n) ==
  LET got == Min(n, Max(0, Len(body) - off))
  IN [k \in 1..Len(layer) |-> IF k <= got THEN body[off + k] ELSE layer[k]]

\* mutant: a short read leaves the layer it was reading as it was
RECURSIVE readLayers_DropsPartial(_, _, _)
readLayers_DropsPartial(g, body, i) ==
  IF i > Len(g.layers) THEN [inst |-> g, outcome |-> "ok",
                             fopens |-> 1, fcloses |-> 1]
  ELSE LET n == g.dimX * g.dimZ
           off == (i - 1) * n
           filled == [g EXCEPT !.layers[i] = freadLayer(@, body, off, n)]
       IN IF Len(body) - off < n
          THEN [inst |-> g, outcome |-> "shortRead",
                fopens |-> 1, fcloses |-> 0]
          ELSE readLayers_DropsPartial(filled, body, i + 1)

\* the loop over layers: stops at the first short read
RECURSIVE readLayers(_, _, _)
readLayers(g, body, i) ==
  IF i > Len(g.layers) THEN [inst |-> g, outcome |-> "ok",
                             fopens |-> 1, fcloses |-> 1]
  ELSE LET n == g.dimX * g.dimZ
           off == (i - 1) * n
           filled == [g EXCEPT !.layers[i] = freadLayer(@, body, off, n)]
       IN IF Len(body) - off < n
          THEN [inst |-> filled, outcome |-> "shortRead",
                fopens |-> 1, fcloses |-> 0]
          ELSE readLayers(filled, body, i + 1)

\* mutant: the header's fields are taken before the version is checked
load_FieldsBeforeVersion(g, file) ==
  IF ~file.exists THEN [inst |-> g, outcome |-> "openFailed",
                        fopens |-> 0, fcloses |-> 0]
  ELSE IF ~file.headerComplete \/ file.header.magic # MAGIC
  THEN [inst |-> g, outcome |-> "readError",
        fopens |-> 1, fcloses |-> 1]
  ELSE LET h == file.header
           set == [g EXCEPT !.dimX = h.dimX, !.dimZ = h.dimZ,
                            !.gridSpacing = h.gridSpacing,
                            !.minX = h.minX, !.minZ = h.minZ,
                            !.sphereRadius = h.sphereRadius,
                            !.invGridSpacing = FDiv(One, h.gridSpacing)]
       IN IF h.version # CURRENT_FILE_VERSION
          THEN [inst |-> set, outcome |-> "versionError",
                fopens |-> 1, fcloses |-> 1]
          ELSE readLayers(ensureLayer(set, numLayersMinusOne(h.numLayers)),
                          file.body, 1)

\* load(): the instance afterwards and how the call ended
load(g, file) ==
  IF ~file.exists THEN [inst |-> g, outcome |-> "openFailed",
                        fopens |-> 0, fcloses |-> 0]
  ELSE IF ~file.headerComplete \/ file.header.magic # MAGIC
  THEN [inst |-> g, outcome |-> "readError",
        fopens |-> 1, fcloses |-> 1]
  ELSE IF file.header.version # CURRENT_FILE_VERSION
  THEN [inst |-> g, outcome |-> "versionError",
        fopens |-> 1, fcloses |-> 1]
  ELSE LET h == file.header
           set == [g EXCEPT !.dimX = h.dimX, !.dimZ = h.dimZ,
                            !.gridSpacing = h.gridSpacing,
                            !.minX = h.minX, !.minZ = h.minZ,
                            !.sphereRadius = h.sphereRadius,
                            !.invGridSpacing = FDiv(One, h.gridSpacing)]
       IN readLayers(ensureLayer(set, numLayersMinusOne(h.numLayers)),
                     file.body, 1)

Pos(px, py, pz) == [x |-> px, y |-> py, z |-> pz]

\* a loaded grid: the fields load() sets, and the patch index derived from
\* the layers
Grid(dX, dZ, mX, mZ, spacing, radius, lyrs) ==
  [dimX |-> dX, dimZ |-> dZ, minX |-> mX, minZ |-> mZ,
   gridSpacing |-> spacing, invGridSpacing |-> FDiv(One, spacing),
   sphereRadius |-> radius, layers |-> lyrs,
   patches |-> BuildPatches(lyrs, dX, dZ)]

\* --------------------------------------------------- inputs of the scan
\* the free intervals with bounds on the integers 0..MaxY
Intervals ==
  {Column(lo * One, hi * One) : lo \in 0..MaxY, hi \in 0..MaxY} \ 
  {c \in {Column(lo * One, hi * One) : lo \in 0..MaxY, hi \in 0..MaxY} :
     IsSolid(c)}

\* Y-ordered and non-overlapping: every column a non-empty interval, each
\* strictly above the one below it
StackOrdered(stack) ==
  /\ \A k \in 1..Len(stack) : stack[k].freeMinY <= stack[k].freeMaxY
  /\ \A k \in 1..(Len(stack) - 1) : stack[k].freeMaxY < stack[k + 1].freeMinY

OrderedStacks ==
  UNION {{s \in [1..n -> Intervals] : StackOrdered(s)} : n \in 0..MaxLayers}

Reverse(s) == [k \in 1..Len(s) |-> s[Len(s) + 1 - k]]

\* the stacks the grids are built over
Stacks == OrderedStacks

\* the stack moved up by d
ShiftStack(s, d) ==
  [k \in 1..Len(s) |-> Column(s[k].freeMinY + d, s[k].freeMaxY + d)]

\* the stack with its topmost layer unused
Shorter(s) ==
  [k \in 1..Len(s) |-> IF k = Len(s) THEN InvalidColumn ELSE s[k]]

SolidStack(n) == [k \in 1..n |-> InvalidColumn]

ScanDimX == 5
ScanDimZ == 2

\* a 5 x 2 grid over stack s: columns x = 0, 1 form a patch of four
\* different stacks (s, s with its top layer unused, s moved up, s with its
\* layers out of order: load() checks nothing), x = 2, 3 a patch of four
\* equal stacks, x = 4 a solid patch
ScanCellStack(s, cx, cz) ==
  IF cx >= 4 THEN SolidStack(Len(s))
  ELSE IF cx >= 2 THEN s
  ELSE IF cx = 1 /\ cz = 0 THEN Shorter(s)
  ELSE IF cx = 0 /\ cz = 1 THEN ShiftStack(s, One \div 2)
  ELSE IF cx = 1 /\ cz = 1 THEN Reverse(s)
  ELSE s

ScanLayers(s) ==
  [k \in 1..Len(s) |->
     [c \in 1..(ScanDimX * ScanDimZ) |->
        ScanCellStack(s, (c - 1) % ScanDimX, (c - 1) \div ScanDimX)[k]]]

ScanGrid(s, radius) ==
  Grid(ScanDimX, ScanDimZ, 0, 0, One, radius, ScanLayers(s))

\* the centres of cells of each kind; y on and between the bounds
ScanCells == {<<0, 0>>, <<1, 0>>, <<0, 1>>, <<1, 1>>, <<3, 1>>, <<4, 0>>}

\* a position below the grid in x and one beyond it in z
ScanOffGrid ==
  {Pos(-(One \div 2), One, One \div 2),
   Pos(One \div 2, One, ScanDimZ * One + One \div 2)}

ScanPositions ==
  {Pos(c[1] * One + One \div 2, py * One, c[2] * One + One \div 2) :
     c \in ScanCells, py \in 0..(MaxY + 1)} \cup ScanOffGrid

CacheValues == (-1)..(MaxLayers + 1)

InitScan ==
  /\ \E s \in Stacks :
       /\ source = ScanGrid(s, One \div 4)
       /\ columnGrids_ = <<ScanGrid(s, One \div 4),
                           ScanGrid(ShiftStack(s, One), One \div 2)>>
  /\ sphereRadii_ = <<One \div 4, One \div 2>>
  /\ queryCache \in CacheValues
  /\ pc = "idle"
  /\ call = NoCall
  /\ result = NoResult
  /\ files = [p \in Paths |-> NoFile]
  /\ other = DefaultSource
  /\ io = NoIO
  /\ setLoad = NoSetLoad
  /\ agents = NoAgents

\* --------------------------------------------------------------- actions
\* mutant: the grid keeps the layer the query ended at
Returned_CacheInGrid(op, radiusIdx, pos, r) ==
  /\ pc' = "returned"
  /\ call' = [op |-> op, radiusIdx |-> radiusIdx, pos |-> pos,
              cacheIn |-> queryCache]
  /\ result' = r
  /\ queryCache' = r.cache
  /\ source' = [source EXCEPT !.sphereRadius = r.cache]
  /\ UNCHANGED <<columnGrids_, sphereRadii_>>
  /\ UNCHANGED ioVars
  /\ UNCHANGED procVars

Returned(op, radiusIdx, pos, r) ==
  /\ pc' = "returned"
  /\ call' = [op |-> op, radiusIdx |-> radiusIdx, pos |-> pos,
              cacheIn |-> queryCache]
  /\ result' = r
  /\ queryCache' = r.cache
  /\ UNCHANGED <<source, columnGrids_, sphereRadii_>>
  /\ UNCHANGED ioVars
  /\ UNCHANGED procVars

Fatal(op, radiusIdx, pos) ==
  /\ pc' = "fatal"
  /\ call' = [op |-> op, radiusIdx |-> radiusIdx, pos |-> pos,
              cacheIn |-> queryCache]
  /\ UNCHANGED <<source, columnGrids_, sphereRadii_, queryCache, result>>
  /\ UNCHANGED ioVars
  /\ UNCHANGED procVars

SourceCastDownTest(pos) ==
  /\ pc = "idle"
  /\ Returned("castDownTest", 0, pos, castDownTest(source, pos, queryCache))

SourceContactTest(pos) ==
  /\ pc = "idle"
  /\ Returned("contactTest", 0, pos, contactTest(source, pos, queryCache))

\* mutant: an index out of range is clamped to the nearest grid
GridSetCastDownTest_Clamped(radiusIdx, pos) ==
  /\ pc = "idle"
  /\ Returned("setCastDownTest", radiusIdx, pos,
              SetCastDownTest(columnGrids_,
                              clamp(radiusIdx, 0, Len(columnGrids_) - 1),
                              pos, queryCache))

GridSetCastDownTest(radiusIdx, pos) ==
  /\ pc = "idle"
  /\ IF safeVectorInRange(columnGrids_, radiusIdx)
     THEN Returned("setCastDownTest", radiusIdx, pos,
                   SetCastDownTest(columnGrids_, radiusIdx, pos, queryCache))
     ELSE Fatal("setCastDownTest", radiusIdx, pos)

GridSetContactTest(radiusIdx, pos) ==
  /\ pc = "idle"
  /\ IF safeVectorInRange(columnGrids_, radiusIdx)
     THEN Returned("setContactTest", radiusIdx, pos,
                   SetContactTest(columnGrids_, radiusIdx, pos, queryCache))
     ELSE Fatal("setContactTest", radiusIdx, pos)

\* ColumnGridSet::getColumnGrid(radiusIdx)
GridSetGetColumnGrid(radiusIdx) ==
  /\ pc = "idle"
  /\ IF safeVectorInRange(columnGrids_, radiusIdx)
     THEN Returned("getColumnGrid", radiusIdx, Pos(0, 0, 0),
                   Result(safeVectorGet(columnGrids_, radiusIdx), queryCache,
                          "grid"))
     ELSE Fatal("getColumnGrid", radiusIdx, Pos(0, 0, 0))

\* the caller takes the result and keeps its cache for the next query
Resume ==
  /\ pc = "returned"
  /\ pc' = "idle"
  /\ call' = NoCall
  /\ result' = NoResult
  /\ UNCHANGED <<source, columnGrids_, sphereRadii_, queryCache>>
  /\ UNCHANGED ioVars
  /\ UNCHANGED procVars

RadiusIndices == (-1)..Len(columnGrids_)

NextScan ==
  \/ \E pos \in ScanPositions : SourceCastDownTest(pos)
  \/ \E pos \in ScanPositions : SourceContactTest(pos)
  \/ \E pos \in ScanPositions, r \in RadiusIndices : GridSetCastDownTest(r, pos)
  \/ \E pos \in ScanPositions, r \in RadiusIndices : GridSetContactTest(r, pos)
  \/ \E r \in RadiusIndices : GridSetGetColumnGrid(r)
  \/ Resume

SpecScan == InitScan /\ [][NextScan]_vars

\* ------------------------------------------- inputs of the bounds check
\* every float of the format in [-4, 4]
FloatWindow == {n \in (-4 * One)..(4 * One) : IsFloat(n)}

\* 1, 1.5 and 1.875
GridSpacings == {One, One + One \div 2, 2 * One - One \div 8}

GridOrigins == {0, -(3 * (One \div 4))}

\* a dim x dim grid of one layer, free from 0 to MaxY in every cell
BoundsGrid(dim, origin, spacing) ==
  Grid(dim, dim, origin, origin, spacing, One \div 4,
       <<[c \in 1..(dim * dim) |-> Column(0, MaxY * One)]>>)

\* x over every float with z inside the grid, and z over every float with x
\* inside; y inside the free interval and above it
BoundsPositions ==
  {Pos(px, py, One \div 2) : px \in FloatWindow, py \in {One, (MaxY + 1) * One}}
  \cup
  {Pos(One \div 2, py, pz) : pz \in FloatWindow, py \in {One, (MaxY + 1) * One}}

InitBounds ==
  /\ \E dim \in 1..2, origin \in GridOrigins, spacing \in GridSpacings :
       /\ source = BoundsGrid(dim, origin, spacing)
       /\ columnGrids_ = <<BoundsGrid(dim, origin, spacing)>>
  /\ sphereRadii_ = <<One \div 4>>
  /\ queryCache \in CacheValues
  /\ pc = "idle"
  /\ call = NoCall
  /\ result = NoResult
  /\ files = [p \in Paths |-> NoFile]
  /\ other = DefaultSource
  /\ io = NoIO
  /\ setLoad = NoSetLoad
  /\ agents = NoAgents

NextBounds ==
  \/ \E pos \in BoundsPositions : SourceCastDownTest(pos)
  \/ \E pos \in BoundsPositions : SourceContactTest(pos)
  \/ Resume

SpecBounds == InitBounds /\ [][NextBounds]_vars

\* ------------------------------------------------------- save and load
\* the columns of layer k, different in every layer and cell
IOColumn(seed, k, c) ==
  Column(((seed + k + c) % (MaxY + 1)) * One,
         ((seed + k + c) % (MaxY + 1)) * One + c * (One \div 2))

\* valid in-memory grids: positive dimensions, spacing and radius, every
\* layer of dimX * dimZ columns
IOGrid(dX, dZ, origin, spacing, n, seed) ==
  Grid(dX, dZ, origin, -origin, spacing, One \div 4,
       [k \in 1..n |-> [c \in 1..(dX * dZ) |-> IOColumn(seed, k, c)]])

IODims == {<<1, 1>>, <<2, 1>>, <<1, 2>>}

InitIO ==
  /\ \E d \in IODims, origin \in GridOrigins, spacing \in GridSpacings,
        n \in 0..MaxLayers, seed \in 0..1 :
       source = IOGrid(d[1], d[2], origin, spacing, n, seed)
  /\ columnGrids_ = <<>>
  /\ sphereRadii_ = <<>>
  /\ queryCache = 0
  /\ pc = "idle"
  /\ call = NoCall
  /\ result = NoResult
  /\ files = [p \in Paths |-> NoFile]
  /\ other = DefaultSource
  /\ io = NoIO
  /\ setLoad = NoSetLoad
  /\ agents = NoAgents

\* mutant: an fopen failure is reported to the caller, who goes on
Save_ReturnsError(path) ==
  /\ pc = "idle"
  /\ IF path \in UnwritablePaths
     THEN /\ pc' = "idle"
          /\ UNCHANGED files
     ELSE /\ pc' = "idle"
          /\ files' = [files EXCEPT ![path] = save(source)]
  /\ io' = [op |-> "save", path |-> path, fresh |-> FALSE,
            outcome |-> IF path \in UnwritablePaths THEN "error" ELSE "ok",
            fopens |-> IF path \in UnwritablePaths THEN 0 ELSE 1,
            fcloses |-> IF path \in UnwritablePaths THEN 0 ELSE 1]
  /\ UNCHANGED <<source, columnGrids_, sphereRadii_, other>>
  /\ UNCHANGED queryVars
  /\ UNCHANGED procVars

\* source.save(path): ESP_CHECK ends the process when fopen fails
Save(path) ==
  /\ pc = "idle"
  /\ IF path \in UnwritablePaths
     THEN /\ pc' = "fatal"
          /\ UNCHANGED files
     ELSE /\ pc' = "idle"
          /\ files' = [files EXCEPT ![path] = save(source)]
  /\ io' = [op |-> "save", path |-> path, fresh |-> FALSE,
            outcome |-> IF path \in UnwritablePaths THEN "fatal" ELSE "ok",
            fopens |-> IF path \in UnwritablePaths THEN 0 ELSE 1,
            fcloses |-> IF path \in UnwritablePaths THEN 0 ELSE 1]
  /\ UNCHANGED <<source, columnGrids_, sphereRadii_, other>>
  /\ UNCHANGED queryVars
  /\ UNCHANGED procVars

\* other.load(path)
Load(path) ==
  /\ pc = "idle"
  /\ LET r == load(other, files[path])
     IN /\ other' = r.inst
        /\ io' = [op |-> "load", path |-> path,
                  fresh |-> (other = DefaultSource), outcome |-> r.outcome,
                  fopens |-> r.fopens, fcloses |-> r.fcloses]
  /\ UNCHANGED <<source, columnGrids_, sphereRadii_, files, pc>>
  /\ UNCHANGED queryVars
  /\ UNCHANGED procVars

\* ColumnGridSource other; a freshly constructed instance
Construct ==
  /\ pc = "idle"
  /\ other' = DefaultSource
  /\ io' = [op |-> "construct", path |-> "", fresh |-> TRUE, outcome |-> "ok",
            fopens |-> 0, fcloses |-> 0]
  /\ UNCHANGED <<source, columnGrids_, sphereRadii_, files, pc>>
  /\ UNCHANGED queryVars
  /\ UNCHANGED procVars

NextIO ==
  \/ \E path \in Paths \cup UnwritablePaths : Save(path)
  \/ \E path \in Paths : Load(path)
  \/ Construct

SpecIO == InitIO /\ [][NextIO]_vars

\* ------------------------------------------- load of arbitrary files
\* a magic that is not MAGIC
OtherMagic == <<64206, 45061, 291, 17768>>

\* a file whose first eight bytes are not the magic
CorruptMagic(f) == [f EXCEPT !.header.magic = OtherMagic]

\* a file written by another version of the format
CorruptVersion(f) == [f EXCEPT !.header.version = CURRENT_FILE_VERSION + 1]

\* a file shorter than sizeof(FileHeader)
TruncateHeader(f) == [f EXCEPT !.headerComplete = FALSE, !.body = <<>>]

\* a file that ends one Column record early
TruncateBody(f) ==
  [f EXCEPT !.body = IF @ = <<>> THEN @ ELSE SubSeq(@, 1, Len(@) - 1)]

\* a file that ends after its first Column record
TruncateToOne(f) ==
  [f EXCEPT !.body = IF @ = <<>> THEN @ ELSE SubSeq(@, 1, 1)]

\* a file whose header has dimX = 0
ZeroDimX(f) == [f EXCEPT !.header.dimX = 0]

\* a file whose header has sphereRadius = 0
ZeroRadius(f) == [f EXCEPT !.header.sphereRadius = 0]

\* the grids whose files are on disk
LoadGrids ==
  {IOGrid(d[1], d[2], 0, One, n, 0) : d \in IODims, n \in 0..MaxLayers}

LoadFiles ==
  {save(g) : g \in LoadGrids}
  \cup {CorruptMagic(save(g)) : g \in LoadGrids}
  \cup {CorruptVersion(save(g)) : g \in LoadGrids}
  \cup {TruncateHeader(save(g)) : g \in LoadGrids}
  \cup {TruncateBody(save(g)) : g \in LoadGrids}
  \cup {TruncateToOne(save(g)) : g \in LoadGrids}
  \cup {ZeroDimX(save(g)) : g \in LoadGrids}
  \cup {ZeroRadius(save(g)) : g \in LoadGrids}
  \cup {NoFile}

InitLoad ==
  /\ source = IOGrid(1, 1, 0, One, 1, 0)
  /\ columnGrids_ = <<>>
  /\ sphereRadii_ = <<>>
  /\ queryCache = 0
  /\ pc = "idle"
  /\ call = NoCall
  /\ result = NoResult
  /\ files \in [Paths -> LoadFiles]
  /\ other = DefaultSource
  /\ io = NoIO
  /\ setLoad = NoSetLoad
  /\ agents = NoAgents

\* load() passes the header checks and an fread of dimX * dimZ records
\* writes past the end of a layer the instance already had, which ensureLayer
\* left at its old size
loadOverflows(g, file) ==
  /\ file.exists
  /\ file.headerComplete
  /\ file.header.magic = MAGIC
  /\ file.header.version = CURRENT_FILE_VERSION
  /\ LET n == file.header.dimX * file.header.dimZ
     IN \E i \in 1..Len(g.layers) :
          /\ Len(file.body) >= (i - 1) * n
          /\ Min(n, Len(file.body) - (i - 1) * n) > Len(g.layers[i])

\* other.load(path) when the fread writes past a layer's buffer: the write
\* is undefined behaviour; the process may go on (Load) or end here
LoadPastBuffer(path) ==
  /\ pc = "idle"
  /\ loadOverflows(other, files[path])
  /\ pc' = "fatal"
  /\ io' = [op |-> "load", path |-> path, fresh |-> FALSE,
            outcome |-> "crashed", fopens |-> 1, fcloses |-> 0]
  /\ UNCHANGED <<source, columnGrids_, sphereRadii_, files, other>>
  /\ UNCHANGED queryVars
  /\ UNCHANGED procVars

\* load() goes past the magic and version checks
headerAccepted(file) ==
  /\ file.exists
  /\ file.headerComplete
  /\ file.header.magic = MAGIC
  /\ file.header.version = CURRENT_FILE_VERSION

\* the four BATCHED_SIM_ASSERT conditions, on the fields just stored
headerAsserts(g) ==
  /\ g.dimX > 0
  /\ g.dimZ > 0
  /\ g.sphereRadius > 0
  /\ g.gridSpacing > 0

\* other.load(path) in a build where BATCHED_SIM_ASSERT ends the process:
\* the header's fields are in the instance when the first failing assert is
\* met; where the macro expands to nothing the call goes on (Load)
LoadAssertFails(path) ==
  /\ pc = "idle"
  /\ headerAccepted(files[path])
  /\ LET h == files[path].header
         stored == [other EXCEPT !.dimX = h.dimX, !.dimZ = h.dimZ,
                                 !.gridSpacing = h.gridSpacing,
                                 !.minX = h.minX, !.minZ = h.minZ,
                                 !.sphereRadius = h.sphereRadius]
     IN /\ ~headerAsserts(stored)
        /\ other' = stored
  /\ pc' = "fatal"
  /\ io' = [op |-> "load", path |-> path, fresh |-> (other = DefaultSource),
            outcome |-> "assertFailed", fopens |-> 1, fcloses |-> 0]
  /\ UNCHANGED <<source, columnGrids_, sphereRadii_, files>>
  /\ UNCHANGED queryVars
  /\ UNCHANGED procVars

NextLoad ==
  \/ \E path \in Paths : Load(path)
  \/ \E path \in Paths : LoadPastBuffer(path)
  \/ \E path \in Paths : LoadAssertFails(path)
  \/ Construct

SpecLoad == InitLoad /\ [][NextLoad]_vars

\* ---------------------------------------------------- ColumnGridSet::load
MaxFiles == 2
MaxLoads == 2

\* filepathBase + "." + std::to_string(n) + ".columngrid"
columnGridFilepath(filepathBase, n) ==
  filepathBase \o "." \o ToString(n) \o ".columngrid"

\* Cr::Utility::Directory::exists
exists(fs, path) == path \in DOMAIN fs /\ fs[path].exists

\* mutant: a missing file is fatal at every index
missingIsFatal_Always(columnGridFilepathNumber, grids) ==
  columnGridFilepathNumber >= 1

\* the else branch: ESP_CHECK(!columnGrids_.empty()) when the number, already
\* incremented, is 1
missingIsFatal(columnGridFilepathNumber, grids) ==
  columnGridFilepathNumber = 1 /\ grids = <<>>

\* mutant: a grid is put in front of the ones the set has
pushBack_Front(vec, x) == <<x>> \o vec

\* std::vector::push_back
pushBack(vec, x) == Append(vec, x)

FilepathBases == {"scene", "stage"}

FileKinds == {"missing", "good", "badMagic", "badVersion", "shortBody"}

\* the grid baked for radius bucket i: one 2 x 1 layer, radius (i + 1) / 4
SetGrid(i) ==
  Grid(2, 1, 0, 0, One, (i + 1) * (One \div 4),
       <<[c \in 1..2 |-> IOColumn(i, 1, c)]>>)

SetFile(kind, i) ==
  IF kind = "good" THEN save(SetGrid(i))
  ELSE IF kind = "badMagic" THEN CorruptMagic(save(SetGrid(i)))
  ELSE IF kind = "badVersion" THEN CorruptVersion(save(SetGrid(i)))
  ELSE IF kind = "shortBody" THEN TruncateBody(save(SetGrid(i)))
  ELSE NoFile

\* files of every kind at the indices 0..MaxFiles of base "scene", gaps
\* included; base "stage" has its file 0 or nothing
InitSet ==
  /\ source = DefaultSource
  /\ columnGrids_ = <<>>
  /\ sphereRadii_ = <<>>
  /\ queryCache = 0
  /\ pc = "idle"
  /\ call = NoCall
  /\ result = NoResult
  /\ \E kinds \in [0..MaxFiles -> FileKinds], stage \in {"missing", "good"} :
       files = [path \in {columnGridFilepath(b, n) :
                            b \in FilepathBases, n \in 0..MaxFiles} |->
                  IF \E n \in 0..MaxFiles : path = columnGridFilepath("scene", n)
                  THEN SetFile(kinds[CHOOSE n \in 0..MaxFiles :
                                       path = columnGridFilepath("scene", n)],
                               CHOOSE n \in 0..MaxFiles :
                                 path = columnGridFilepath("scene", n))
                  ELSE IF path = columnGridFilepath("stage", 0)
                  THEN SetFile(stage, MaxFiles + 1)
                  ELSE NoFile]
  /\ other = DefaultSource
  /\ io = NoIO
  /\ setLoad = NoSetLoad
  /\ agents = NoAgents

\* ColumnGridSet::load(filepathBase) is called
SetLoadBegin(filepathBase) ==
  /\ pc = "idle"
  /\ setLoad.calls < MaxLoads
  /\ pc' = "loading"
  /\ setLoad' = [filepathBase |-> filepathBase, columnGridFilepathNumber |-> 0,
                 probed |-> <<>>, opened |-> <<>>,
                 sizeAtCall |-> Len(columnGrids_),
                 calls |-> setLoad.calls + 1, outcome |-> "running"]
  /\ UNCHANGED <<source, columnGrids_, sphereRadii_, agents>>
  /\ UNCHANGED queryVars
  /\ UNCHANGED ioVars

\* one turn of the while (true) loop, its control: the number is
\* incremented, and the call goes on when the file exists, ends in the
\* ESP_CHECK or breaks when it does not
SetLoadAdvance ==
  /\ pc = "loading"
  /\ LET n == setLoad.columnGridFilepathNumber
         probed == [setLoad EXCEPT !.columnGridFilepathNumber = n + 1,
                                   !.probed = Append(@, n)]
     IN IF exists(files, columnGridFilepath(setLoad.filepathBase, n))
        THEN /\ setLoad' = [probed EXCEPT !.opened = Append(@, n)]
             /\ pc' = "loading"
        ELSE IF missingIsFatal(n + 1, columnGrids_)
        THEN /\ setLoad' = [probed EXCEPT !.outcome = "fatal"]
             /\ pc' = "fatal"
        ELSE /\ setLoad' = [probed EXCEPT !.outcome = "returned"]
             /\ pc' = "idle"

\* mutant: the radius recorded is the one in the file's header, whatever
\* load() did
SetLoadStep_RadiusOfHeader ==
  /\ SetLoadAdvance
  /\ LET columnGridFilepath_ ==
           columnGridFilepath(setLoad.filepathBase,
                              setLoad.columnGridFilepathNumber)
     IN IF exists(files, columnGridFilepath_)
        THEN LET columnGrid == load(DefaultSource, files[columnGridFilepath_]).inst
             IN /\ sphereRadii_' =
                     pushBack(sphereRadii_,
                              files[columnGridFilepath_].header.sphereRadius)
                /\ columnGrids_' = pushBack(columnGrids_, columnGrid)
        ELSE UNCHANGED <<columnGrids_, sphereRadii_>>
  /\ UNCHANGED <<source, agents>>
  /\ UNCHANGED queryVars
  /\ UNCHANGED ioVars

\* one turn of the while (true) loop: an existing file is loaded into a new
\* ColumnGridSource, which is appended whatever load() did
SetLoadStep ==
  /\ SetLoadAdvance
  /\ LET columnGridFilepath_ ==
           columnGridFilepath(setLoad.filepathBase,
                              setLoad.columnGridFilepathNumber)
     IN IF exists(files, columnGridFilepath_)
        THEN LET columnGrid == load(DefaultSource, files[columnGridFilepath_]).inst
             IN /\ sphereRadii_' = pushBack(sphereRadii_, columnGrid.sphereRadius)
                /\ columnGrids_' = pushBack(columnGrids_, columnGrid)
        ELSE UNCHANGED <<columnGrids_, sphereRadii_>>
  /\ UNCHANGED <<source, agents>>
  /\ UNCHANGED queryVars
  /\ UNCHANGED ioVars

NextSet ==
  \/ \E filepathBase \in FilepathBases : SetLoadBegin(filepathBase)
  \/ SetLoadStep
  \/ \E r \in RadiusIndices : GridSetGetColumnGrid(r)
  \/ Resume

SpecSet == InitSet /\ [][NextSet]_vars

\* a call of ColumnGridSet::load keeps running: the loop takes its next
\* turn
SpecSetFair == SpecSet /\ WF_<<pc, setLoad>>(SetLoadAdvance)

\* ------------------------------------------------- concurrent callers
\* the callers, each the owner of one QueryCacheValue
Agents == {"a1", "a2"}

\* a caller between queries: its cache, and the result and cache it would
\* have had its queries run alone; reads counts the getColumn calls of the
\* query in progress
IdleAgent(cache, alone) ==
  [pc |-> "idle", pos |-> Pos(0, 0, 0), cache |-> cache, patchIdx |-> 0,
   localCellIdx |-> 0, layerIndex |-> 0, prevColFreeMinY |-> 0, ret |-> 0,
   reads |-> 0, alone |-> alone]

\* mutant: every caller passes the cache of caller a1
queryCacheOf_Shared(ags, a) == ags["a1"].cache

\* *queryCache of caller a
queryCacheOf(ags, a) == ags[a].cache

\* lines 55 to 95: the patch and the local cell of pos, or off the grid
resolveCell(g, pos) ==
  LET cellFloatX == cellFloat(pos.x, g.minX, g.invGridSpacing)
      cellFloatZ == cellFloat(pos.z, g.minZ, g.invGridSpacing)
  IN IF offGrid(cellFloatX, g.dimX) \/ offGrid(cellFloatZ, g.dimZ)
     THEN [off |-> TRUE, patchIdx |-> 0, localCellIdx |-> 0]
     ELSE LET globalCellX == FloatToInt(cellFloatX)
              globalCellZ == FloatToInt(cellFloatZ)
              patchIdx == getPatchIndex(g, ShiftRight(globalCellX, patchShift),
                                        ShiftRight(globalCellZ, patchShift))
              patch == g.patches[patchIdx + 1]
          IN [off |-> FALSE, patchIdx |-> patchIdx,
              localCellIdx |->
                getLocalCellIndex(
                  ShiftRight(MaskLow(globalCellX, globalToLocalCellMask),
                             patch.localCellShift),
                  ShiftRight(MaskLow(globalCellZ, globalToLocalCellMask),
                             patch.localCellShift))]

\* a stack of MaxLayers intervals [2k - 1, 2k - 1/2]
AgentStack ==
  [k \in 1..MaxLayers |->
     Column((2 * k - 1) * One, (2 * k - 1) * One + One \div 2)]

\* one patch of 2 x 2 cells: the stack in order at (0, 0), out of order at
\* (1, 0), no free space at (0, 1) and (1, 1)
AgentGrid ==
  Grid(2, 2, 0, 0, One, One \div 4,
       [k \in 1..MaxLayers |->
          <<AgentStack[k], Reverse(AgentStack)[k], InvalidColumn, InvalidColumn>>])

\* y below, inside, between and above the intervals of the first two cells;
\* a position in a solid cell; a position off the grid
AgentPositions ==
  {Pos(cx * One + One \div 2, py * One, One \div 2) :
     cx \in 0..1, py \in 0..(2 * MaxLayers)}
  \cup {Pos(One \div 2, One, One + One \div 2), Pos(-One, One, One \div 2)}

InitAgents ==
  /\ source = AgentGrid
  /\ columnGrids_ = <<>>
  /\ sphereRadii_ = <<>>
  /\ queryCache = 0
  /\ pc = "idle"
  /\ call = NoCall
  /\ result = NoResult
  /\ files = [p \in Paths |-> NoFile]
  /\ other = DefaultSource
  /\ io = NoIO
  /\ setLoad = NoSetLoad
  /\ agents \in [Agents -> {IdleAgent(c, Result(0, c, "none")) : c \in CacheValues}]

\* what a step of caller a leaves alone
AgentFrame ==
  /\ UNCHANGED <<source, columnGrids_, sphereRadii_, pc, setLoad>>
  /\ UNCHANGED queryVars
  /\ UNCHANGED ioVars

\* caller a enters castDownTest(pos, &its cache): lines 53 to 95
AgentCall(a, pos) ==
  /\ agents[a].pc = "idle"
  /\ LET cell == resolveCell(source, pos)
         entered == [agents[a] EXCEPT
                       !.pos = pos,
                       !.alone = castDownTest(source, pos, agents[a].alone.cache)]
     IN agents' = [agents EXCEPT ![a] =
          IF cell.off \/ source.patches[cell.patchIdx + 1].numLayers = 0
          THEN [entered EXCEPT !.pc = "returning", !.ret = outsideVolumeRetVal]
          ELSE [entered EXCEPT !.pc = "entered", !.patchIdx = cell.patchIdx,
                               !.localCellIdx = cell.localCellIdx]]
  /\ AgentFrame

\* lines 97 to 104 and 124: the cache is read and the start layer tested
AgentReadCache(a) ==
  /\ agents[a].pc = "entered"
  /\ LET me == agents[a]
         patch == source.patches[me.patchIdx + 1]
         layerIndex == clamp(queryCacheOf(agents, a), 0, patch.numLayers - 1)
         col == getColumn(patch, me.localCellIdx, layerIndex)
     IN agents' = [agents EXCEPT ![a] =
          IF me.pos.y >= col.freeMinY
          THEN IF me.pos.y <= col.freeMaxY
               THEN [me EXCEPT !.pc = "returning", !.cache = layerIndex,
                               !.ret = FSub(me.pos.y, col.freeMinY),
                               !.reads = 1]
               ELSE [me EXCEPT !.pc = "searchUp", !.layerIndex = layerIndex,
                               !.reads = 1]
          ELSE [me EXCEPT !.pc = "searchDown", !.layerIndex = layerIndex,
                          !.prevColFreeMinY = col.freeMinY, !.reads = 1]]
  /\ AgentFrame

\* mutant: at the top of the stack the search turns round and goes down
AgentSearchUp_TurnsRound(a) ==
  /\ agents[a].pc = "searchUp"
  /\ LET me == agents[a]
         patch == source.patches[me.patchIdx + 1]
         layerIndex == me.layerIndex + 1
     IN agents' = [agents EXCEPT ![a] =
          IF layerIndex >= patch.numLayers
          THEN [me EXCEPT !.pc = "searchDown", !.layerIndex = layerIndex,
                          !.prevColFreeMinY = INVALID_Y]
          ELSE LET col == getColumn(patch, me.localCellIdx, layerIndex)
               IN IF me.pos.y < col.freeMinY \/ me.pos.y <= col.freeMaxY
                  THEN [me EXCEPT !.pc = "returning", !.cache = layerIndex,
                                  !.ret = FSub(me.pos.y, col.freeMinY),
                                  !.reads = @ + 1]
                  ELSE [me EXCEPT !.layerIndex = layerIndex, !.reads = @ + 1]]
  /\ AgentFrame

\* lines 107 to 120: one turn of the search up
AgentSearchUp(a) ==
  /\ agents[a].pc = "searchUp"
  /\ LET me == agents[a]
         patch == source.patches[me.patchIdx + 1]
         layerIndex == me.layerIndex + 1
     IN agents' = [agents EXCEPT ![a] =
          IF layerIndex >= patch.numLayers
          THEN [me EXCEPT !.pc = "returning", !.cache = patch.numLayers - 1,
                          !.ret = outsideVolumeRetVal]
          ELSE LET col == getColumn(patch, me.localCellIdx, layerIndex)
               IN IF me.pos.y < col.freeMinY \/ me.pos.y <= col.freeMaxY
                  THEN [me EXCEPT !.pc = "returning", !.cache = layerIndex,
                                  !.ret = FSub(me.pos.y, col.freeMinY),
                                  !.reads = @ + 1]
                  ELSE [me EXCEPT !.layerIndex = layerIndex, !.reads = @ + 1]]
  /\ AgentFrame

\* lines 126 to 141: one turn of the search down
AgentSearchDown(a) ==
  /\ agents[a].pc = "searchDown"
  /\ LET me == agents[a]
         patch == source.patches[me.patchIdx + 1]
         layerIndex == me.layerIndex - 1
     IN agents' = [agents EXCEPT ![a] =
          IF layerIndex < 0
          THEN [me EXCEPT !.pc = "returning", !.cache = 0,
                          !.ret = outsideVolumeRetVal]
          ELSE LET col == getColumn(patch, me.localCellIdx, layerIndex)
               IN IF me.pos.y > col.freeMaxY
                  THEN [me EXCEPT !.pc = "returning", !.cache = layerIndex,
                                  !.ret = FSub(me.pos.y, me.prevColFreeMinY),
                                  !.reads = @ + 1]
                  ELSE IF me.pos.y >= col.freeMinY
                  THEN [me EXCEPT !.pc = "returning", !.cache = layerIndex,
                                  !.ret = FSub(me.pos.y, col.freeMinY),
                                  !.reads = @ + 1]
                  ELSE [me EXCEPT !.layerIndex = layerIndex,
                                  !.prevColFreeMinY = col.freeMinY,
                                  !.reads = @ + 1]]
  /\ AgentFrame

\* caller a takes the result and keeps its cache for its next query
AgentReturn(a) ==
  /\ agents[a].pc = "returning"
  /\ agents' = [agents EXCEPT ![a] =
                  IdleAgent(@.cache, Result(0, @.alone.cache, "none"))]
  /\ AgentFrame

NextAgents ==
  \/ \E a \in Agents, pos \in AgentPositions : AgentCall(a, pos)
  \/ \E a \in Agents : AgentReadCache(a)
  \/ \E a \in Agents : AgentSearchUp(a)
  \/ \E a \in Agents : AgentSearchDown(a)
  \/ \E a \in Agents : AgentReturn(a)

SpecAgents == InitAgents /\ [][NextAgents]_vars

\* the steps of a castDownTest that has been entered
AgentRun(a) == AgentReadCache(a) \/ AgentSearchUp(a) \/ AgentSearchDown(a)

\* one caller queries, the other stays between queries
InitSolo == InitAgents /\ agents["a2"] = IdleAgent(0, Result(0, 0, "none"))

NextSolo ==
  \/ \E pos \in AgentPositions : AgentCall("a1", pos)
  \/ AgentReadCache("a1")
  \/ AgentSearchUp("a1")
  \/ AgentSearchDown("a1")
  \/ AgentReturn("a1")

\* castDownTest runs synchronously: a call that was entered takes its next
\* step
SpecSolo == InitSolo /\ [][NextSolo]_vars /\ WF_agents(AgentRun("a1"))

\* ================================================================ claims
\* The vocabulary of the claims, stated on the flat layers and in exact
\* arithmetic, not through the patch index or the float computation.
CastOps == {"castDownTest", "setCastDownTest"}

ContactOps == {"contactTest", "setContactTest"}

\* the grid the last query ran on
QueriedGrid ==
  IF call.op \in {"setCastDownTest", "setContactTest"}
  THEN columnGrids_[call.radiusIdx + 1]
  ELSE source

\* minX <= x < minX + dimX*gridSpacing and the same on z
InBounds(g, pos) ==
  /\ pos.x >= g.minX /\ pos.x - g.minX < g.dimX * g.gridSpacing
  /\ pos.z >= g.minZ /\ pos.z - g.minZ < g.dimZ * g.gridSpacing

\* the cell of an in-bounds position and its column-stack in the layers
CellX(g, pos) == (pos.x - g.minX) \div g.gridSpacing

CellZ(g, pos) == (pos.z - g.minZ) \div g.gridSpacing

StackAt(g, pos) == CellStack(g.layers, g.dimX, CellX(g, pos), CellZ(g, pos))

PatchAt(g, pos) ==
  g.patches[(CellZ(g, pos) \div PatchSide) * numPatchesX(g.dimX)
            + (CellX(g, pos) \div PatchSide) + 1]

Inside(col, y) == col.freeMinY <= y /\ y <= col.freeMaxY

\* a query returned that resolved to a cell of a patch with layers, the
\* cell's stack Y-ordered and non-overlapping
ResolvedOrdered(ops) ==
  /\ pc = "returned"
  /\ call.op \in ops
  /\ InBounds(QueriedGrid, call.pos)
  /\ PatchAt(QueriedGrid, call.pos).numLayers > 0
  /\ StackOrdered(StackAt(QueriedGrid, call.pos))

\* a query returned that resolved to a cell of a patch without layers
ResolvedEmpty(ops) ==
  /\ pc = "returned"
  /\ call.op \in ops
  /\ InBounds(QueriedGrid, call.pos)
  /\ PatchAt(QueriedGrid, call.pos).numLayers = 0

\* C1: for a fixed grid and position whose cell's stack is Y-ordered and
\* non-overlapping (or whose patch has no layers), castDownTest returns the
\* same number for every initial cache value, negative and >= numLayers
\* included.
C1_CacheIndependence ==
  (ResolvedOrdered(CastOps) \/ ResolvedEmpty(CastOps)) =>
    \A c \in CacheValues :
      castDownTest(QueriedGrid, call.pos, c).ret = result.ret

\* a gap was reached from above, by a cache value beyond the last layer
C1_Witness ==
  /\ ResolvedOrdered(CastOps)
  /\ result.path = "downBetween"
  /\ call.cacheIn >= Len(StackAt(QueriedGrid, call.pos))
  /\ castDownTest(QueriedGrid, call.pos, -1).path = "upBetween"

\* C2: on a cell with an ordered stack, contactTest returns false exactly
\* when y lies inside one of the stack's intervals, and true between two
\* intervals, below the lowest and above the highest, for every cache value.
C2_Containment ==
  ResolvedOrdered(ContactOps) =>
    LET stack == StackAt(QueriedGrid, call.pos)
    IN result.ret = ~(\E k \in 1..Len(stack) : Inside(stack[k], call.pos.y))

\* y strictly between two intervals: contact
C2_Witness ==
  /\ ResolvedOrdered(ContactOps)
  /\ result.ret = TRUE
  /\ LET stack == StackAt(QueriedGrid, call.pos)
     IN \E k \in 1..(Len(stack) - 1) :
          stack[k].freeMaxY < call.pos.y /\ call.pos.y < stack[k + 1].freeMinY

\* C5: when y lies inside interval k of the resolved cell, castDownTest
\* returns y - freeMinY[k], which is >= 0 and <= freeMaxY[k] - freeMinY[k],
\* whichever way the scan finds the interval.
C5_HitValue ==
  ResolvedOrdered(CastOps) =>
    LET stack == StackAt(QueriedGrid, call.pos)
    IN \A k \in 1..Len(stack) :
         Inside(stack[k], call.pos.y) =>
           /\ result.ret = call.pos.y - stack[k].freeMinY
           /\ result.ret >= 0
           /\ result.ret <= stack[k].freeMaxY - stack[k].freeMinY

\* an interval above its floor found by the downward scan
C5_Witness ==
  /\ ResolvedOrdered(CastOps)
  /\ result.path = "downHit"
  /\ result.ret > 0
  /\ LET stack == StackAt(QueriedGrid, call.pos)
     IN \E k \in 1..Len(stack) :
          /\ Inside(stack[k], call.pos.y)
          /\ result.ret = call.pos.y - stack[k].freeMinY

\* C6: when y lies strictly between intervals k and k+1 of the resolved
\* cell, castDownTest returns y - freeMinY[k+1], a negative number, by the
\* upward and by the downward scan alike.
C6_BetweenValue ==
  ResolvedOrdered(CastOps) =>
    LET stack == StackAt(QueriedGrid, call.pos)
    IN \A k \in 1..(Len(stack) - 1) :
         (stack[k].freeMaxY < call.pos.y /\ call.pos.y < stack[k + 1].freeMinY)
           => /\ result.ret = call.pos.y - stack[k + 1].freeMinY
              /\ result.ret < 0
              /\ result.path \in {"upBetween", "downBetween"}

\* the gap reached from the layer above it
C6_Witness ==
  /\ ResolvedOrdered(CastOps)
  /\ result.path = "downBetween"
  /\ result.ret = -One

\* C7: above the topmost interval castDownTest returns the sentinel and
\* leaves the cache at numLayers-1; below the lowest interval it returns the
\* sentinel and leaves the cache at 0; for every initial cache value.
C7_LayerExhaustion ==
  ResolvedOrdered(CastOps) =>
    LET stack == StackAt(QueriedGrid, call.pos)
        n == Len(stack)
    IN /\ call.pos.y > stack[n].freeMaxY =>
            /\ result.ret = outsideVolumeRetVal
            /\ queryCache = n - 1
       /\ call.pos.y < stack[1].freeMinY =>
            /\ result.ret = outsideVolumeRetVal
            /\ queryCache = 0

\* two layers, the scan started at the bottom one and ran off the top
C7_Witness ==
  /\ ResolvedOrdered(CastOps)
  /\ Len(StackAt(QueriedGrid, call.pos)) = 2
  /\ call.cacheIn <= 0
  /\ result.path = "upExhausted"
  /\ queryCache = 1

\* C8: contactTest returns true exactly when castDownTest on the same grid,
\* position and initial cache returns a number < 0, and leaves the cache
\* castDownTest leaves; for ColumnGridSource and for ColumnGridSet with an
\* in-range radiusIdx.
C8_ContactIsNegativeCast ==
  (pc = "returned" /\ call.op \in ContactOps) =>
    LET r == castDownTest(QueriedGrid, call.pos, call.cacheIn)
    IN /\ result.ret = (r.ret < 0)
       /\ queryCache = r.cache

\* a hit on the floor of an interval, through the set: clearance 0, no contact
C8_Witness ==
  /\ pc = "returned"
  /\ call.op = "setContactTest"
  /\ call.radiusIdx = 1
  /\ result.ret = FALSE
  /\ castDownTest(QueriedGrid, call.pos, call.cacheIn).ret = 0
  /\ queryCache # call.cacheIn

\* C9: in a patch with numLayers = 0 castDownTest returns the sentinel for
\* every y and every cache value, and returns before it reads a column.
C9_EmptyPatch ==
  ResolvedEmpty(CastOps) =>
    /\ result.ret = outsideVolumeRetVal
    /\ result.path = "emptyPatch"

\* a solid patch of a grid that has layers elsewhere
C9_Witness ==
  /\ ResolvedEmpty(CastOps)
  /\ Len(QueriedGrid.layers) > 0
  /\ result.path = "emptyPatch"

\* the query took castDownTest's off-grid return
OffGridReturn == result.path \in {"offGridX", "offGridZ"}

\* C3 (the claim as stated): a position with x < minX,
\* x >= minX + dimX*gridSpacing, z < minZ or z >= minZ + dimZ*gridSpacing gets
\* the negative sentinel for every y and every cache value, and a position
\* inside those bounds never takes the off-grid return.
C3_SentinelOutOfBounds ==
  (pc = "returned" /\ call.op \in CastOps) =>
    /\ ~InBounds(QueriedGrid, call.pos) =>
         (result.ret = outsideVolumeRetVal /\ result.ret < 0)
    /\ InBounds(QueriedGrid, call.pos) => ~OffGridReturn

\* C4 (the claim as stated): contactTest on a position outside the grid's
\* horizontal bounds reports free, not in contact.
C4_OffGridIsFree ==
  (pc = "returned" /\ call.op \in ContactOps
     /\ ~InBounds(QueriedGrid, call.pos)) => result.ret = FALSE

\* C4 (amended): contactTest on a position castDownTest finds off the grid
\* (its cell coordinate (pos - min) * invGridSpacing below 0 or not below the
\* dimension, on x or z) reports contact: it returns true, for every y and
\* every cache value, the sentinel being negative.
C4_OffGridIsContact ==
  (pc = "returned" /\ call.op \in ContactOps
     /\ \/ offGrid(cellFloat(call.pos.x, QueriedGrid.minX,
                             QueriedGrid.invGridSpacing), QueriedGrid.dimX)
        \/ offGrid(cellFloat(call.pos.z, QueriedGrid.minZ,
                             QueriedGrid.invGridSpacing), QueriedGrid.dimZ))
    => (result.ret = TRUE /\ queryCache = call.cacheIn)

\* contactTest beyond the far edge in z, at a y that is free inside the grid
C4_Witness ==
  /\ pc = "returned"
  /\ call.op = "contactTest"
  /\ call.pos.z - source.minZ >= source.dimZ * source.gridSpacing
  /\ call.pos.y = One
  /\ result.path = "offGridZ"
  /\ result.ret = TRUE

\* C10: save(path) of a valid grid followed by load(path) into a freshly
\* constructed ColumnGridSource gives the same minX, minZ, gridSpacing,
\* sphereRadius, dimX, dimZ, the same number of layers and the same Column
\* values in every layer, in the same order.
C10_RoundTrip ==
  (io.op = "load" /\ io.fresh /\ files[io.path].exists) =>
    /\ io.outcome = "ok"
    /\ other.minX = source.minX
    /\ other.minZ = source.minZ
    /\ other.gridSpacing = source.gridSpacing
    /\ other.sphereRadius = source.sphereRadius
    /\ other.dimX = source.dimX
    /\ other.dimZ = source.dimZ
    /\ Len(other.layers) = Len(source.layers)
    /\ \A k \in 1..Len(source.layers) : other.layers[k] = source.layers[k]

\* two layers of two cells each came back
C10_Witness ==
  /\ io.op = "load"
  /\ io.fresh
  /\ io.outcome = "ok"
  /\ files[io.path] = save(source)
  /\ Len(other.layers) = 2
  /\ other.dimX * other.dimZ = 2
  /\ other.layers[1] # other.layers[2]
  /\ other.layers[1][1] # other.layers[1][2]

\* the ways load() returns before it assigns a field
RejectedOutcomes == {"openFailed", "readError", "versionError"}

\* C11: a load() that fails because the file cannot be opened, the header
\* is short, the magic differs or the version differs leaves every field of
\* the instance (dimX, dimZ, minX, minZ, gridSpacing, invGridSpacing,
\* sphereRadius, layers, patches) as it was before the call.
C11_RejectedLoadKeepsState ==
  [][(io'.op = "load" /\ io'.outcome \in RejectedOutcomes) => other' = other]_vars

\* a version mismatch met by an instance that had been loaded before
C11_Witness ==
  /\ io.op = "load"
  /\ io.outcome = "versionError"
  /\ ~io.fresh
  /\ Len(other.layers) > 0
  /\ other.dimX # files[io.path].header.dimX

\* C20: after a load() that reports no error, whatever the instance held
\* before, it has exactly header.numLayers layers, each of exactly
\* dimX * dimZ columns equal to the file's block for that layer, and the
\* header's scalar fields.
C20_LoadPostcondition ==
  (io.op = "load" /\ io.outcome = "ok") =>
    LET h == files[io.path].header
        n == h.dimX * h.dimZ
    IN /\ other.dimX = h.dimX /\ other.dimZ = h.dimZ
       /\ other.minX = h.minX /\ other.minZ = h.minZ
       /\ other.gridSpacing = h.gridSpacing
       /\ other.sphereRadius = h.sphereRadius
       /\ Len(other.layers) = h.numLayers
       /\ \A k \in 1..Len(other.layers) :
            /\ Len(other.layers[k]) = n
            /\ k * n <= Len(files[io.path].body)
            /\ other.layers[k] = SubSeq(files[io.path].body, (k - 1) * n + 1, k * n)

\* the first index at which filepathBase has no file
FirstMissing(filepathBase) ==
  CHOOSE n \in 0..(MaxFiles + 1) :
    /\ ~exists(files, columnGridFilepath(filepathBase, n))
    /\ \A k \in 0..(n - 1) : exists(files, columnGridFilepath(filepathBase, k))

\* the file of filepathBase at index i
FileAt(filepathBase, i) == files[columnGridFilepath(filepathBase, i)]

\* a call of ColumnGridSet::load on an empty set has returned
FirstLoadReturned == setLoad.outcome = "returned" /\ setLoad.sizeAtCall = 0

\* C12: after ColumnGridSet::load returns, every grid the set holds was
\* loaded completely and successfully: a file that exists but fails
\* ColumnGridSource::load leaves no grid in the set.
C12_OnlyLoadedGrids ==
  FirstLoadReturned =>
    \A i \in 1..Len(columnGrids_) :
      load(DefaultSource, FileAt(setLoad.filepathBase, i - 1)).outcome = "ok"

\* C13: ColumnGridSet::load on an empty set probes the indices 0, 1, 2, ...
\* in order up to the first missing index n; afterwards the set holds n
\* grids and radii, grid i being what ColumnGridSource::load makes of file i,
\* and no file beyond n was opened.
C13_DiscoveryOrder ==
  FirstLoadReturned =>
    LET n == FirstMissing(setLoad.filepathBase)
    IN /\ setLoad.probed = [i \in 1..(n + 1) |-> i - 1]
       /\ setLoad.opened = [i \in 1..n |-> i - 1]
       /\ Len(columnGrids_) = n
       /\ Len(sphereRadii_) = n
       /\ \A i \in 1..n :
            /\ columnGrids_[i] =
                 load(DefaultSource, FileAt(setLoad.filepathBase, i - 1)).inst
            /\ sphereRadii_[i] = columnGrids_[i].sphereRadius

\* one grid found, the file beyond the gap at index 1 left alone
C13_Witness ==
  /\ FirstLoadReturned
  /\ setLoad.filepathBase = "scene"
  /\ Len(columnGrids_) = 1
  /\ columnGrids_[1].layers = SetGrid(0).layers
  /\ sphereRadii_ = <<SetGrid(0).sphereRadius>>
  /\ setLoad.probed = <<0, 1>>
  /\ exists(files, columnGridFilepath("scene", 2))

\* C14: a call of ColumnGridSet::load that finds no file at index 0 ends in
\* a fatal error, whether the set was empty or populated before the call.
C14_ZeroGridsFatal ==
  (setLoad.outcome \in {"returned", "fatal"} /\ setLoad.opened = <<>>)
    => setLoad.outcome = "fatal"

\* the set has been populated: a call of ColumnGridSet::load has returned
Populated ==
  setLoad.calls >= 2 \/ (setLoad.calls = 1 /\ setLoad.outcome = "returned")

\* C19: once a ColumnGridSet has been populated by load, no later operation
\* (getColumnGrid, a query, a further load) changes the number, order or
\* contents of its grids or of its sphere radii.
C19_PopulatedOnce ==
  [][Populated => UNCHANGED <<columnGrids_, sphereRadii_>>]_vars

SetOps == {"getColumnGrid", "setCastDownTest", "setContactTest"}

\* C16: for every radiusIdx < 0 or >= the number of grids, getColumnGrid,
\* contactTest and castDownTest of ColumnGridSet end in a fatal failure: no
\* result is returned, from no grid, and the caller's cache is as it was.
C16_OutOfRangeFails ==
  (call.op \in SetOps /\ ~safeVectorInRange(columnGrids_, call.radiusIdx))
    => (pc = "fatal" /\ result = NoResult /\ queryCache = call.cacheIn)

\* castDownTest with radiusIdx = -1, where a clamp would have found grid 0
C16_Witness ==
  /\ pc = "fatal"
  /\ call.op = "setCastDownTest"
  /\ call.radiusIdx = -1
  /\ Len(columnGrids_) = 2
  /\ InBounds(columnGrids_[1], call.pos)

\* C17: a call of castDownTest or contactTest, on a ColumnGridSource or a
\* ColumnGridSet, leaves the fields, layers and patches of every grid and the
\* set's lists of grids and radii unchanged; of the caller's state it changes
\* the cache value only.
C17_QueriesKeepStructure ==
  [][(pc = "idle" /\ pc' \in {"returned", "fatal"})
       => UNCHANGED <<source, columnGrids_, sphereRadii_, files, other>>]_vars

\* a query through the set that moved the caller's cache
C17_Witness ==
  /\ pc = "returned"
  /\ call.op = "setCastDownTest"
  /\ queryCache # call.cacheIn
  /\ result.path \in {"upHit", "downHit"}

\* C18: callers that query the same loaded grid concurrently, each with its
\* own cache, get from every interleaving of their steps the results and
\* the cache values they would get with their queries run alone.
C18_PrivateCaches ==
  \A a \in Agents :
    agents # NoAgents /\ agents[a].pc = "returning" =>
      /\ agents[a].ret = agents[a].alone.ret
      /\ agents[a].cache = agents[a].alone.cache

\* a1 returns from a search up while a2 is in a search down in the same
\* cell, from another cache
C18_Witness ==
  /\ agents # NoAgents
  /\ agents["a1"].pc = "returning"
  /\ agents["a1"].alone.path = "upHit"
  /\ agents["a2"].pc = "searchDown"
  /\ agents["a1"].patchIdx = agents["a2"].patchIdx
  /\ agents["a1"].localCellIdx = agents["a2"].localCellIdx
  /\ agents["a1"].cache # agents["a2"].cache

\* C21: after a load() that reports no error, the patch index castDownTest
\* reads has been built from the loaded layers: every cell of the grid maps
\* to an existing patch, whose numLayers is the largest layer count over its
\* cells.
C21_PatchesDerived ==
  (io.op = "load" /\ io.outcome = "ok") =>
    \A cx \in 0..(other.dimX - 1), cz \in 0..(other.dimZ - 1) :
      LET idx == getPatchIndex(other, ShiftRight(cx, patchShift),
                               ShiftRight(cz, patchShift)) + 1
      IN /\ idx \in DOMAIN other.patches
         /\ other.patches[idx].numLayers =
              BuildPatches(other.layers, other.dimX, other.dimZ)[idx].numLayers

\* C22: when castDownTest returns a hit, y lying inside interval k of the
\* resolved cell (k counted from 0), the caller's cache is k after the call,
\* for every initial cache value.
C22_CacheNamesHitLayer ==
  ResolvedOrdered(CastOps) =>
    LET stack == StackAt(QueriedGrid, call.pos)
    IN \A k \in 1..Len(stack) :
         Inside(stack[k], call.pos.y) => queryCache = k - 1

\* a cache beyond the last layer, clamped to the top layer, which holds y
C22_Witness ==
  /\ ResolvedOrdered(CastOps)
  /\ result.path = "hit"
  /\ call.cacheIn = MaxLayers + 1
  /\ queryCache = 1
  /\ Inside(StackAt(QueriedGrid, call.pos)[2], call.pos.y)

\* the scan of castDownTest run on the flat layers: the cell is
\* (trunc((x - minX) * invGridSpacing), trunc((z - minZ) * invGridSpacing)),
\* its columns are layers[0..][cellZ * dimX + cellX], and every layer counts
flatCastDownTest(g, pos, cache) ==
  LET cellX == FloatToInt(cellFloat(pos.x, g.minX, g.invGridSpacing))
      cellZ == FloatToInt(cellFloat(pos.z, g.minZ, g.invGridSpacing))
      flat == [numLayers |-> Len(g.layers), localCellShift |-> 0,
               columns |-> <<CellStack(g.layers, g.dimX, cellX, cellZ)>>]
  IN IF Len(g.layers) = 0
     THEN Result(outsideVolumeRetVal, cache, "noLayers")
     ELSE scanLayers(flat, 0, cache, pos.y)

\* C23: with the patches built from the layers (a block of equal stacks
\* stored once), castDownTest through the patch and local-cell lookup
\* returns, for every position on the grid and every cache value, what the
\* same scan returns on the flat layers at that cell.
C23_PatchRefinesFlat ==
  (pc = "returned" /\ call.op \in CastOps /\ InBounds(QueriedGrid, call.pos)) =>
    result.ret = flatCastDownTest(QueriedGrid, call.pos, call.cacheIn).ret

\* a hit in a cell of a block stored once, which is not the block's first
\* cell, on a grid that has a block stored cell by cell too
C23_Witness ==
  /\ pc = "returned"
  /\ call.op \in CastOps
  /\ InBounds(QueriedGrid, call.pos)
  /\ PatchAt(QueriedGrid, call.pos).localCellShift = patchShift
  /\ CellX(QueriedGrid, call.pos) % PatchSide = 1
  /\ CellZ(QueriedGrid, call.pos) % PatchSide = 1
  /\ QueriedGrid.patches[1].localCellShift = 0
  /\ result.path = "upHit"
  /\ result.ret > 0

C25_ShortReadAborts ==
  [][(io'.op = "load" /\ io'.outcome = "shortRead") =>
       LET f == files[io'.path]
           h == f.header
           n == h.dimX * h.dimZ
           first == (Len(f.body) \div n) + 1
           before(k) == IF k <= Len(other.layers) THEN other.layers[k]
                        ELSE [c \in 1..n |-> InvalidColumn]
       IN /\ other'.dimX = h.dimX /\ other'.dimZ = h.dimZ
          /\ other'.minX = h.minX /\ other'.minZ = h.minZ
          /\ other'.gridSpacing = h.gridSpacing
          /\ other'.sphereRadius = h.sphereRadius
          /\ first <= Len(other'.layers)
          /\ \A k \in 1..Len(other'.layers) :
               /\ Len(other'.layers[k]) = Len(before(k))
               /\ \A c \in 1..Len(before(k)) :
                    other'.layers[k][c] =
                      IF c <= n /\ (k - 1) * n + c <= Len(f.body) /\ k <= first
                      THEN f.body[(k - 1) * n + c]
                      ELSE before(k)[c]]_vars

\* a new instance and a file of two layers of two columns that ends one
\* record early: the first layer is filled, the second has one record of
\* the file and one unused column
C25_Witness ==
  /\ io.op = "load"
  /\ io.outcome = "shortRead"
  /\ io.fresh
  /\ Len(files[io.path].body) = 3
  /\ other.dimX * other.dimZ = 2
  /\ Len(other.layers) = 2
  /\ other.layers[1] = SubSeq(files[io.path].body, 1, 2)
  /\ other.layers[2] = <<files[io.path].body[3], InvalidColumn>>

\* C26: in every state after a call of load() on a file with valid magic
\* and version the instance has dimX > 0, dimZ > 0, gridSpacing > 0,
\* sphereRadius > 0 and invGridSpacing = 1 / gridSpacing; a header that
\* violates one of these never leaves its values in the instance.
C26_HeaderInvariants ==
  (io.op = "load" /\ headerAccepted(files[io.path])) =>
    /\ pc # "fatal" =>
         /\ headerAsserts(other)
         /\ other.invGridSpacing = FDiv(One, other.gridSpacing)
    /\ ~headerAsserts(files[io.path].header) =>
         <<other.dimX, other.dimZ, other.gridSpacing, other.sphereRadius>> #
           <<files[io.path].header.dimX, files[io.path].header.dimZ,
             files[io.path].header.gridSpacing,
             files[io.path].header.sphereRadius>>

\* C27: after any sequence of ColumnGridSet::load calls the list of radii is
\* as long as the list of grids, and radius i is the sphereRadius field of
\* grid i, also for a grid whose file failed to load.
C27_ParallelRadii ==
  /\ Len(sphereRadii_) = Len(columnGrids_)
  /\ \A i \in 1..Len(columnGrids_) : sphereRadii_[i] = columnGrids_[i].sphereRadius

\* two calls returned; the set holds a grid whose file was rejected, radius
\* 0, before one that was loaded
C27_Witness ==
  /\ setLoad.outcome = "returned"
  /\ setLoad.calls = 2
  /\ Len(columnGrids_) >= 2
  /\ \E i \in 1..Len(columnGrids_), j \in 1..Len(columnGrids_) :
       /\ i < j
       /\ columnGrids_[i] = DefaultSource
       /\ sphereRadii_[i] = 0
       /\ sphereRadii_[j] > 0
       /\ columnGrids_[j].sphereRadius = sphereRadii_[j]

\* C28 (the claim as stated): when the path cannot be opened for writing,
\* save() returns an I/O error to its caller, writes nothing and leaves the
\* instance unchanged.
C28_SaveReturnsError ==
  [][(io'.op = "save" /\ io'.path \in UnwritablePaths) =>
       /\ pc' = "idle"
       /\ io'.outcome = "error"
       /\ files' = files
       /\ source' = source]_vars

\* C28 (amended): when the path cannot be opened for writing, save() ends
\* in the fatal failure of its ESP_CHECK and does not return to its caller;
\* nothing is written and the instance is unchanged.
C28_SaveFailsFatally ==
  [][(io'.op = "save" /\ io'.path \in UnwritablePaths) =>
       /\ pc' = "fatal"
       /\ io'.outcome = "fatal"
       /\ files' = files
       /\ source' = source]_vars

\* a grid saved to a writable path and then to one that cannot be opened
C28_Witness ==
  /\ io.op = "save"
  /\ io.path \in UnwritablePaths
  /\ pc = "fatal"
  /\ Len(source.layers) > 0
  /\ \E p \in Paths : files[p] = save(source)

\* the early returns of castDownTest
EarlyPaths == {"offGridX", "offGridZ", "emptyPatch"}

\* C29: after a castDownTest that went past the off-grid and empty-patch
\* checks, the caller's cache is a layer index of the patch, 0 ..
\* numLayers - 1, whatever it was before (negative, in range, >= numLayers);
\* getColumn is defined on those indices only, so no column outside them is
\* read.
C29_CacheInRange ==
  (pc = "returned" /\ call.op \in (CastOps \cup ContactOps)
     /\ InBounds(QueriedGrid, call.pos) /\ result.path \notin EarlyPaths) =>
    LET numLayers == PatchAt(QueriedGrid, call.pos).numLayers
    IN queryCache >= 0 /\ queryCache <= numLayers - 1

\* a negative cache, the scan started at layer 0 of two and ran off the
\* bottom
C29_Witness ==
  /\ pc = "returned"
  /\ call.op \in CastOps
  /\ InBounds(QueriedGrid, call.pos)
  /\ PatchAt(QueriedGrid, call.pos).numLayers = 2
  /\ call.cacheIn = -1
  /\ result.path = "downExhausted"
  /\ queryCache = 0

\* castDownTest finds the position of the last query off the grid
OffGridQuery ==
  \/ offGrid(cellFloat(call.pos.x, QueriedGrid.minX, QueriedGrid.invGridSpacing),
             QueriedGrid.dimX)
  \/ offGrid(cellFloat(call.pos.z, QueriedGrid.minZ, QueriedGrid.invGridSpacing),
             QueriedGrid.dimZ)

\* C30: when castDownTest returns the sentinel because the position is off
\* the grid or because the patch that owns it has numLayers = 0, the caller's
\* cache after the call is what it was before the call.
C30_EarlyReturnKeepsCache ==
  (pc = "returned" /\ call.op \in CastOps) =>
    /\ OffGridQuery =>
         (result.ret = outsideVolumeRetVal /\ queryCache = call.cacheIn)
    /\ (~OffGridQuery /\ PatchAt(QueriedGrid, call.pos).numLayers = 0) =>
         (result.ret = outsideVolumeRetVal /\ queryCache = call.cacheIn)

\* an off-grid castDownTest of a grid with layers, called with a cache
\* beyond the last layer
C30_Witness ==
  /\ pc = "returned"
  /\ call.op = "castDownTest"
  /\ OffGridQuery
  /\ result.path = "offGridX"
  /\ Len(source.layers) = MaxLayers
  /\ call.cacheIn = MaxLayers + 1
  /\ queryCache = MaxLayers + 1

\* castDownTest called again on the grid and position of the last query,
\* with the cache that query left
RepeatQuery == castDownTest(QueriedGrid, call.pos, queryCache)

\* y lies strictly between intervals k and k + 1 of the stack (k from 1)
InGap(stack, k, y) == stack[k].freeMaxY < y /\ y < stack[k + 1].freeMinY

\* C31 (the claim as stated): on a grid with Y-ordered non-overlapping
\* stacks, a second castDownTest with the same position and the cache the
\* first one wrote returns the same result and leaves the cache unchanged.
C31_RepeatIsFixedPoint ==
  ResolvedOrdered(CastOps) =>
    (RepeatQuery.ret = result.ret /\ RepeatQuery.cache = queryCache)

\* C31 (amended): the second castDownTest returns the same result; it
\* leaves the cache unchanged when y is inside an interval, above the
\* topmost or below the lowest one, and when y lies strictly between two
\* intervals it moves the cache to the other of the two layers around the
\* gap; after an off-grid or empty-patch return both are unchanged.
C31_RepeatSameResult ==
  /\ ResolvedOrdered(CastOps) =>
       LET stack == StackAt(QueriedGrid, call.pos)
           gaps == {k \in 1..(Len(stack) - 1) : InGap(stack, k, call.pos.y)}
       IN /\ RepeatQuery.ret = result.ret
          /\ gaps = {} => RepeatQuery.cache = queryCache
          /\ \A k \in gaps :
               /\ queryCache \in {k - 1, k}
               /\ RepeatQuery.cache \in {k - 1, k}
               /\ RepeatQuery.cache # queryCache
  /\ (pc = "returned" /\ call.op \in CastOps /\ result.path \in EarlyPaths) =>
       (RepeatQuery.ret = result.ret /\ RepeatQuery.cache = queryCache)

\* a gap reached from below: the first call remembers the layer above it,
\* the second the layer below it
C31_Witness ==
  /\ ResolvedOrdered(CastOps)
  /\ result.path = "upBetween"
  /\ queryCache = 1
  /\ RepeatQuery.path = "downBetween"
  /\ RepeatQuery.cache = 0
  /\ RepeatQuery.ret = result.ret

\* the patch caller a resolved
AgentPatch(a) == source.patches[agents[a].patchIdx + 1]

\* the query of caller a has read a column and goes on
Scanning(a) == agents[a].pc \in {"searchUp", "searchDown"}

\* a step of the scan of caller a: the direction is the one the start layer
\* gave (up when y > its freeMaxY, down when y < its freeMinY), it is kept,
\* and the layer index moves by one in that direction
ScanStep(a) ==
  /\ (agents[a].pc = "entered" /\ agents'[a].pc = "searchUp") =>
       agents[a].pos.y >
         getColumn(AgentPatch(a), agents[a].localCellIdx,
                   agents'[a].layerIndex).freeMaxY
  /\ (agents[a].pc = "entered" /\ agents'[a].pc = "searchDown") =>
       agents[a].pos.y <
         getColumn(AgentPatch(a), agents[a].localCellIdx,
                   agents'[a].layerIndex).freeMinY
  /\ (Scanning(a) /\ agents'[a] # agents[a]) =>
       /\ agents'[a].pc \in {agents[a].pc, "returning"}
       /\ agents'[a].pc = "searchUp" =>
            agents'[a].layerIndex = agents[a].layerIndex + 1
       /\ agents'[a].pc = "searchDown" =>
            agents'[a].layerIndex = agents[a].layerIndex - 1

\* C32: every castDownTest returns, after reading at most patch.numLayers
\* columns; after the first column it moves the layer index in one direction
\* only, up by 1 per step when y > freeMaxY of the start layer, down by 1
\* per step when y < freeMinY of the start layer, until it returns.
C32_ScanTerminates ==
  /\ [](\A a \in Agents :
          agents[a].pc \in {"searchUp", "searchDown", "returning"} =>
            agents[a].reads <= AgentPatch(a).numLayers)
  /\ [][\A a \in Agents : ScanStep(a)]_vars
  /\ \A a \in Agents : (agents[a].pc = "entered") ~> (agents[a].pc = "returning")

\* a scan that started at the bottom layer, read every layer on its way up
\* and ran off the top
C32_Witness ==
  /\ agents["a1"].pc = "returning"
  /\ agents["a1"].reads = MaxLayers
  /\ agents["a1"].alone.path = "upExhausted"
  /\ agents["a1"].ret = outsideVolumeRetVal
  /\ agents["a1"].cache = MaxLayers - 1

\* ------------------------------------- the scan on unchecked file contents
\* load() stores the Column records of a file as they are, so a bound can be
\* any float32 bit pattern, NaN included. NaN is a value outside the format;
\* every ordered comparison with it is false and every difference with it
\* is NaN.
NaN == 2 * INVALID_Y + 1

FLess(a, b) == a # NaN /\ b # NaN /\ a < b

FLessEq(a, b) == a # NaN /\ b # NaN /\ a <= b

FSubIEEE(a, b) == IF a = NaN \/ b = NaN THEN NaN ELSE FSub(a, b)

\* a result together with what BATCHED_SIM_ASSERT(queryY < prevColFreeMinY)
\* evaluates to, where the return passes it
ResultIEEE(r, c, p, asserted) ==
  [ret |-> r, cache |-> c, path |-> p, assertHolds |-> asserted]

RECURSIVE searchUpIEEE(_, _, _, _)
searchUpIEEE(patch, localCellIdx, layerIndex0, queryY) ==
  LET layerIndex == layerIndex0 + 1
  IN IF layerIndex >= patch.numLayers
     THEN ResultIEEE(outsideVolumeRetVal, patch.numLayers - 1, "upExhausted", TRUE)
     ELSE LET col == getColumn(patch, localCellIdx, layerIndex)
          IN IF FLess(queryY, col.freeMinY)
             THEN ResultIEEE(FSubIEEE(queryY, col.freeMinY), layerIndex,
                             "upBetween", TRUE)
             ELSE IF FLessEq(queryY, col.freeMaxY)
             THEN ResultIEEE(FSubIEEE(queryY, col.freeMinY), layerIndex,
                             "upHit", TRUE)
             ELSE searchUpIEEE(patch, localCellIdx, layerIndex, queryY)

RECURSIVE searchDownIEEE(_, _, _, _, _)
searchDownIEEE(patch, localCellIdx, layerIndex0, queryY, prevColFreeMinY) ==
  LET layerIndex == layerIndex0 - 1
  IN IF layerIndex < 0
     THEN ResultIEEE(outsideVolumeRetVal, 0, "downExhausted", TRUE)
     ELSE LET col == getColumn(patch, localCellIdx, layerIndex)
          IN IF FLess(col.freeMaxY, queryY)
             THEN ResultIEEE(FSubIEEE(queryY, prevColFreeMinY), layerIndex,
                             "downBetween", FLess(queryY, prevColFreeMinY))
             ELSE IF FLessEq(col.freeMinY, queryY)
             THEN ResultIEEE(FSubIEEE(queryY, col.freeMinY), layerIndex,
                             "downHit", TRUE)
             ELSE searchDownIEEE(patch, localCellIdx, layerIndex, queryY,
                                 col.freeMinY)

scanLayersIEEE(patch, localCellIdx, cache, queryY) ==
  LET layerIndex == clamp(cache, 0, patch.numLayers - 1)
      col == getColumn(patch, localCellIdx, layerIndex)
  IN IF FLessEq(col.freeMinY, queryY)
     THEN IF FLessEq(queryY, col.freeMaxY)
          THEN ResultIEEE(FSubIEEE(queryY, col.freeMinY), layerIndex, "hit", TRUE)
          ELSE searchUpIEEE(patch, localCellIdx, layerIndex, queryY)
     ELSE searchDownIEEE(patch, localCellIdx, layerIndex, queryY, col.freeMinY)

\* (pos - min) * invGridSpacing, NaN for a NaN coordinate
cellFloatIEEE(p, min, invGridSpacing) ==
  IF p = NaN THEN NaN ELSE cellFloat(p, min, invGridSpacing)

\* cellFloat < 0.f || cellFloat >= (float)dim: false for NaN
offGridIEEE(cf, dim) == FLess(cf, 0) \/ FLessEq(IntToFloat(dim), cf)

\* int(cellFloat): truncation; the conversion of NaN is undefined, nanCell
\* is what it gives in this build
floatToIntIEEE(cf, nanCell) == IF cf = NaN THEN nanCell ELSE FloatToInt(cf)

\* what int(NaN) gives: INT_MIN (x86 cvttss2si) or 0 (a saturating
\* conversion)
NaNToInt == {-Pow2(30) - Pow2(30), 0}

\* a result with the indices lines 74 to 95 computed on the way
Resolved(r, gx, gz, pIdx, lIdx) ==
  [ret |-> r.ret, cache |-> r.cache, path |-> r.path,
   assertHolds |-> r.assertHolds, globalCellX |-> gx, globalCellZ |-> gz,
   patchIdx |-> pIdx, localCellIdx |-> lIdx]

\* castDownTest on a grid whose columns may hold NaN, at a position whose
\* coordinates may be NaN; "patchOutside" when patches[patchIdx] is not an
\* element of patches
castDownTestIEEE(g, pos, cache, nanCell) ==
  LET cellFloatX == cellFloatIEEE(pos.x, g.minX, g.invGridSpacing)
      cellFloatZ == cellFloatIEEE(pos.z, g.minZ, g.invGridSpacing)
  IN IF offGridIEEE(cellFloatX, g.dimX)
     THEN Resolved(ResultIEEE(outsideVolumeRetVal, cache, "offGridX", TRUE),
                   0, 0, 0, 0)
     ELSE IF offGridIEEE(cellFloatZ, g.dimZ)
     THEN Resolved(ResultIEEE(outsideVolumeRetVal, cache, "offGridZ", TRUE),
                   0, 0, 0, 0)
     ELSE LET globalCellX == floatToIntIEEE(cellFloatX, nanCell)
              globalCellZ == floatToIntIEEE(cellFloatZ, nanCell)
              patchX == ShiftRight(globalCellX, patchShift)
              patchZ == ShiftRight(globalCellZ, patchShift)
              patchIdx == getPatchIndex(g, patchX, patchZ)
          IN IF patchIdx + 1 \notin DOMAIN g.patches
             THEN Resolved(ResultIEEE(0, cache, "patchOutside", TRUE),
                           globalCellX, globalCellZ, patchIdx, 0)
             ELSE LET patch == g.patches[patchIdx + 1]
                      localCellX ==
                        ShiftRight(MaskLow(globalCellX, globalToLocalCellMask),
                                   patch.localCellShift)
                      localCellZ ==
                        ShiftRight(MaskLow(globalCellZ, globalToLocalCellMask),
                                   patch.localCellShift)
                      localCellIdx == getLocalCellIndex(localCellX, localCellZ)
                  IN Resolved(
                       IF patch.numLayers = 0
                       THEN ResultIEEE(outsideVolumeRetVal, cache, "emptyPatch", TRUE)
                       ELSE scanLayersIEEE(patch, localCellIdx, cache, pos.y),
                       globalCellX, globalCellZ, patchIdx, localCellIdx)

\* the bounds a record of a file can hold: numbers in any order, and NaN
RawBounds == {0, One, 2 * One, NaN}

RawColumns == {Column(lo, hi) : lo \in RawBounds, hi \in RawBounds}

RawStacks == UNION {[1..n -> RawColumns] : n \in 1..MaxLayers}

\* a 1 x 1 grid with the stack, one patch that holds it cell by cell
RawGrid(stack) ==
  [dimX |-> 1, dimZ |-> 1, minX |-> 0, minZ |-> 0, gridSpacing |-> One,
   invGridSpacing |-> One, sphereRadius |-> One \div 4,
   layers |-> [k \in 1..Len(stack) |-> <<stack[k]>>],
   patches |-> <<[numLayers |-> Len(stack), localCellShift |-> 0,
                  columns |-> [i \in 1..(PatchSide * PatchSide) |->
                                 IF i = 1 THEN stack
                                 ELSE [k \in 1..Len(stack) |-> InvalidColumn]]]>>]

\* the centre of the cell at every y, NaN included; a position with x = NaN
\* and one beyond the grid in x
RawPositions ==
  {Pos(One \div 2, y, One \div 2) : y \in RawBounds \cup {3 * One}}
  \cup {Pos(NaN, One, One \div 2), Pos(One + One \div 2, One, One \div 2)}

InitRaw ==
  /\ \E stack \in RawStacks : source = RawGrid(stack)
  /\ columnGrids_ = <<>>
  /\ sphereRadii_ = <<>>
  /\ queryCache \in CacheValues
  /\ pc = "idle"
  /\ call = NoCall
  /\ result = NoResult
  /\ files = [p \in Paths |-> NoFile]
  /\ other = DefaultSource
  /\ io = NoIO
  /\ setLoad = NoSetLoad
  /\ agents = NoAgents

\* source.castDownTest(pos, &queryCache) where BATCHED_SIM_ASSERT expands to
\* nothing, or its condition holds
RawCastDownTest(pos) ==
  /\ pc = "idle"
  /\ \E nanCell \in NaNToInt :
       LET r == castDownTestIEEE(source, pos, queryCache, nanCell)
       IN /\ r.path # "patchOutside"
          /\ Returned("castDownTest", 0, pos, r)

\* source.castDownTest(pos, &queryCache) where BATCHED_SIM_ASSERT ends the
\* process: line 133 has stored the layer, line 134 fails
RawAssertFails(pos) ==
  /\ pc = "idle"
  /\ \E nanCell \in NaNToInt :
       LET r == castDownTestIEEE(source, pos, queryCache, nanCell)
       IN /\ r.path # "patchOutside"
          /\ ~r.assertHolds
          /\ result' = r
          /\ queryCache' = r.cache
  /\ pc' = "fatal"
  /\ call' = [op |-> "castDownTest", radiusIdx |-> 0, pos |-> pos,
              cacheIn |-> queryCache]
  /\ UNCHANGED <<source, columnGrids_, sphereRadii_>>
  /\ UNCHANGED ioVars
  /\ UNCHANGED procVars

\* source.castDownTest(pos, &queryCache) where BATCHED_SIM_ASSERT ends the
\* process at line 72 or 78: a NaN cellFloat went past the off-grid checks
\* and is neither >= 0 nor < dim
RawCellAssertFails(pos) ==
  /\ pc = "idle"
  /\ LET cellFloatX == cellFloatIEEE(pos.x, source.minX, source.invGridSpacing)
         cellFloatZ == cellFloatIEEE(pos.z, source.minZ, source.invGridSpacing)
     IN /\ ~offGridIEEE(cellFloatX, source.dimX)
        /\ ~offGridIEEE(cellFloatZ, source.dimZ)
        /\ cellFloatX = NaN \/ cellFloatZ = NaN
  /\ result' = Resolved(ResultIEEE(0, queryCache, "cellAssert", TRUE), 0, 0, 0, 0)
  /\ pc' = "fatal"
  /\ call' = [op |-> "castDownTest", radiusIdx |-> 0, pos |-> pos,
              cacheIn |-> queryCache]
  /\ UNCHANGED <<source, columnGrids_, sphereRadii_, queryCache>>
  /\ UNCHANGED ioVars
  /\ UNCHANGED procVars

\* source.castDownTest(pos, &queryCache) when patches[patchIdx] at line 85
\* is outside the vector: the read is undefined behaviour; the process ends
\* there, or goes on with whatever numLayers it read, here 0
RawReadsOutside(pos) ==
  /\ pc = "idle"
  /\ \E nanCell \in NaNToInt, crashes \in BOOLEAN :
       LET r == castDownTestIEEE(source, pos, queryCache, nanCell)
       IN /\ r.path = "patchOutside"
          /\ result' = [r EXCEPT !.ret = outsideVolumeRetVal]
          /\ pc' = IF crashes THEN "fatal" ELSE "returned"
  /\ call' = [op |-> "castDownTest", radiusIdx |-> 0, pos |-> pos,
              cacheIn |-> queryCache]
  /\ UNCHANGED <<source, columnGrids_, sphereRadii_, queryCache>>
  /\ UNCHANGED ioVars
  /\ UNCHANGED procVars

NextRaw ==
  \/ \E pos \in RawPositions : RawCastDownTest(pos)
  \/ \E pos \in RawPositions : RawAssertFails(pos)
  \/ \E pos \in RawPositions : RawCellAssertFails(pos)
  \/ \E pos \in RawPositions : RawReadsOutside(pos)
  \/ Resume

SpecRaw == InitRaw /\ [][NextRaw]_vars

\* C33: whenever the downward scan reaches
\* BATCHED_SIM_ASSERT(queryY < prevColFreeMinY) the condition holds, for
\* every content of the column-stack, stacks that are not Y-ordered
\* included, and every initial cache value.
C33_DownAssertHolds ==
  (call.op = "castDownTest" /\ result.path = "downBetween") =>
    result.assertHolds

\* the condition holds where neither the stack nor y is NaN
DownAssertHoldsOnNumbers ==
  (call.op = "castDownTest" /\ result.path = "downBetween"
     /\ call.pos.y # NaN
     /\ \A k \in 1..Len(source.layers) :
          source.layers[k][1].freeMinY # NaN /\ source.layers[k][1].freeMaxY # NaN)
    => result.assertHolds

\* the query went past both off-grid checks and truncated the cell
PassedOffGridChecks ==
  /\ call.op = "castDownTest"
  /\ result.path \notin {"offGridX", "offGridZ", "cellAssert"}

\* C34: for every position that passes the off-grid checks the truncated
\* cell has 0 <= globalCellX < dimX and 0 <= globalCellZ < dimZ, the patch
\* index of (globalCellX >> patchShift, globalCellZ >> patchShift) names an
\* existing patch, and the local cell index names a column-stack of that
\* patch.
C34_IndicesInBounds ==
  PassedOffGridChecks =>
    /\ result.globalCellX >= 0 /\ result.globalCellX < source.dimX
    /\ result.globalCellZ >= 0 /\ result.globalCellZ < source.dimZ
    /\ result.patchIdx + 1 \in DOMAIN source.patches
    /\ result.localCellIdx + 1 \in DOMAIN source.patches[result.patchIdx + 1].columns

\* the indices are in bounds where no coordinate of the position is NaN
IndicesInBoundsOnNumbers ==
  (PassedOffGridChecks /\ call.pos.x # NaN /\ call.pos.z # NaN) =>
    /\ result.globalCellX >= 0 /\ result.globalCellX < source.dimX
    /\ result.globalCellZ >= 0 /\ result.globalCellZ < source.dimZ
    /\ result.patchIdx + 1 \in DOMAIN source.patches
    /\ result.localCellIdx + 1 \in DOMAIN source.patches[result.patchIdx + 1].columns

\* the same for the positions whose coordinates are numbers, with the cell
\* the code truncates from the rounded cellFloat: near the far edge of the
\* grid the rounding of cellFloat never takes the cell to dimX or dimZ
IndicesInBoundsAtEdges ==
  (pc = "returned" /\ call.op = "castDownTest" /\ ~OffGridReturn) =>
    LET g == source
        globalCellX == FloatToInt(cellFloat(call.pos.x, g.minX, g.invGridSpacing))
        globalCellZ == FloatToInt(cellFloat(call.pos.z, g.minZ, g.invGridSpacing))
        cell == resolveCell(g, call.pos)
    IN /\ globalCellX >= 0 /\ globalCellX < g.dimX
       /\ globalCellZ >= 0 /\ globalCellZ < g.dimZ
       /\ cell.patchIdx + 1 \in DOMAIN g.patches
       /\ cell.localCellIdx + 1 \in DOMAIN g.patches[cell.patchIdx + 1].columns

\* C35: on every return path of load() after fopen succeeded (bad magic,
\* bad version, short layer read, success) the file handle has been closed
\* exactly once before the function returns.
C35_LoadClosesFile ==
  (io.op = "load" /\ pc # "fatal" /\ io.fopens = 1) => io.fcloses = 1

\* the handle is closed exactly once on the return paths other than the
\* short read
LoadClosesFileUnlessShort ==
  (io.op = "load" /\ pc # "fatal" /\ io.fopens = 1
     /\ io.outcome # "shortRead") => io.fcloses = 1

\* the last call loaded, into a fresh instance, a file with a valid header
\* and numLayers = 0
LoadedZeroLayerFile ==
  /\ io.op = "load"
  /\ io.fresh
  /\ headerAccepted(files[io.path])
  /\ headerAsserts(files[io.path].header)
  /\ files[io.path].header.numLayers = 0

C37_SaveFrameAndHeader ==
  [][io'.op = "save" =>
       /\ source' = source
       /\ io'.outcome = "ok" =>
            LET file == files'[io'.path]
                n == source.dimX * source.dimZ
            IN /\ file.exists /\ file.headerComplete
               /\ file.header.magic = <<64206, 45061, 291, 17767>>
               /\ file.header.version = 1
               /\ headerAccepted(file)
               /\ file.header.numLayers = Len(source.layers)
               /\ Len(file.body) = Len(source.layers) * n
               /\ \A i \in 1..Len(source.layers) : \A c \in 1..n :
                    file.body[(i - 1) * n + c] = source.layers[i][c]]_vars

\* save() has written a grid of two cells whose two layers differ
C37_Witness ==
  /\ io.op = "save"
  /\ io.outcome = "ok"
  /\ source.dimX * source.dimZ = 2
  /\ Len(source.layers) = 2
  /\ source.layers[1] # source.layers[2]
  /\ files[io.path].header.numLayers = 2
  /\ Len(files[io.path].body) = 4

====
